---- MODULE Spec2Model ----
(***************************************************************************)
(* The in-memory document store of the Telegram PDF bot                    *)
(* (document-store.js): addDocument / deleteDocument / clearDocuments,     *)
(* the read operations, searchDocuments with calculateRelevance, and       *)
(* chunkText.                                                              *)
(*                                                                         *)
(* A JavaScript string is a sequence of one-character strings, so that     *)
(* length, substring, split, trim and regular-expression matching are      *)
(* computed character by character, as the code computes them.  The Map    *)
(* this.documents is a function whose DOMAIN is the set of keys the Map    *)
(* holds.  The field uploadedAt (a wall-clock timestamp no operation       *)
(* reads) is left out of the document record.                              *)
(*                                                                         *)
(* Every store method is synchronous: under Node's run-to-completion        *)
(* scheduling two handlers can interleave only between whole store calls,  *)
(* so one action is one whole call and Next interleaves the calls of all   *)
(* users in every order.                                                   *)
(***************************************************************************)
EXTENDS Integers, Sequences, FiniteSets, TLC

VARIABLES documents, call, ret, everAdded, frame, handlers, effects, storeCalls

\* The variables of the bot's message handlers.
botVars == <<handlers, effects, storeCalls>>

vars == <<documents, call, ret, everAdded, frame, handlers, effects, storeCalls>>

(***************************************************************************)
(* Strings                                                                 *)
(***************************************************************************)

\* JavaScript values that are not strings.  A string is a sequence of
\* one-character strings; `undefined` and a number are the one-element
\* sequences below, which no string equals.
Undefined == <<"undefined">>

NumberValue == <<"number">>

\* typeof v
typeOf(v) == IF v \in {Undefined, NumberValue} THEN v[1] ELSE "string"

\* The members of the regular-expression class \s (and of what trim()
\* strips) that occur in the modelled alphabet.
Whitespace == {" ", "\n"}

\* The characters of the class [.!?] of the sentence-boundary lookbehind.
SentenceEnd == {".", "!", "?"}

Indices(s) == [i \in 1..Len(s) |-> i]

MaxOf(a, b) == IF a >= b THEN a ELSE b

MinOf(a, b) == IF a <= b THEN a ELSE b

\* String.prototype.toLowerCase, on the modelled alphabet.
lowerChar(c) ==
    CASE c = "A" -> "a"
      [] c = "B" -> "b"
      [] c = "C" -> "c"
      [] c = "D" -> "d"
      [] c = "F" -> "f"
      [] c = "P" -> "p"
      [] OTHER -> c

toLowerCase(s) == [i \in 1..Len(s) |-> lowerChar(s[i])]

\* String.prototype.trim: strips leading and trailing whitespace.
trim(s) ==
    LET nonWs == SelectSeq(Indices(s), LAMBDA i : s[i] \notin Whitespace)
    IN  IF nonWs = <<>> THEN <<>> ELSE SubSeq(s, nonWs[1], nonWs[Len(nonWs)])

\* String.prototype.startsWith: the string s begins with the string p.
startsWith(s, p) == Len(p) <= Len(s) /\ SubSeq(s, 1, Len(p)) = p

\* String.prototype.includes(sub): sub occurs in s as a contiguous substring.
includes(s, sub) ==
    \E i \in 1..(Len(s) - Len(sub) + 1) : SubSeq(s, i, i + Len(sub) - 1) = sub

\* The pieces of s between the separators; seps is the ordered sequence of
\* <<first, last>> index pairs of the separators.  As String.prototype.split
\* does, it keeps the empty pieces (before a leading, between two adjacent and
\* after a trailing separator).
piecesBetween(s, seps) ==
    [k \in 1..(Len(seps) + 1) |->
        SubSeq(s,
               IF k = 1 THEN 1 ELSE seps[k - 1][2] + 1,
               IF k = Len(seps) + 1 THEN Len(s) ELSE seps[k][1] - 1)]

\* The last index of the maximal whitespace run that starts at index q.
RECURSIVE runEnd(_, _)
runEnd(s, q) ==
    IF q < Len(s) /\ s[q + 1] \in Whitespace THEN runEnd(s, q + 1) ELSE q

\* text.split(/(?<=[.!?])\s+/): a separator is a maximal run of whitespace
\* whose preceding character is '.', '!' or '?'.
splitSentences(text) ==
    LET starts == SelectSeq(Indices(text),
                      LAMBDA i : i > 1 /\ text[i] \in Whitespace
                                       /\ text[i - 1] \in SentenceEnd)
    IN  piecesBetween(text, [k \in 1..Len(starts) |-> <<starts[k], runEnd(text, starts[k])>>])

\* s.split(' '): every single space is a separator.
splitSpace(s) ==
    LET at == SelectSeq(Indices(s), LAMBDA i : s[i] = " ")
    IN  piecesBetween(s, [k \in 1..Len(at) |-> <<at[k], at[k]>>])

\* s.split(/\s+/): every maximal run of whitespace is a separator.
splitWhitespace(s) ==
    LET starts == SelectSeq(Indices(s),
                      LAMBDA i : s[i] \in Whitespace
                                 /\ (i = 1 \/ s[i - 1] \notin Whitespace))
    IN  piecesBetween(s, [k \in 1..Len(starts) |-> <<starts[k], runEnd(s, starts[k])>>])

\* Array.prototype.slice(start) with one argument: a negative start counts
\* from the end, and -0 is 0, so slice(-0) is the whole array.
slice(arr, start) ==
    LET from == IF start < 0 THEN MaxOf(Len(arr) + start, 0) ELSE MinOf(start, Len(arr))
    IN  SubSeq(arr, from + 1, Len(arr))

RECURSIVE joinRange(_, _, _, _)
joinRange(arr, sep, lo, hi) ==
    IF lo > hi THEN <<>>
    ELSE IF lo = hi THEN arr[lo]
    ELSE LET mid == (lo + hi) \div 2
         IN  joinRange(arr, sep, lo, mid) \o sep \o joinRange(arr, sep, mid + 1, hi)

\* Array.prototype.join(sep) of an array of strings.
join(arr, sep) == joinRange(arr, sep, 1, Len(arr))

(***************************************************************************)
(* chunkText                                                               *)
(***************************************************************************)

\* The default values of chunkText's parameters.
DefaultChunkSize == 3000

DefaultOverlap == 500

\* closesChunk that looks at the length of the current chunk alone.
closesChunkByBufferOnly(currentChunk, sentence, chunkSize) ==
    Len(currentChunk) > chunkSize /\ Len(currentChunk) > 0

\* The condition of the if in the loop: the sentence closes the current chunk.
closesChunk(currentChunk, sentence, chunkSize) ==
    Len(currentChunk \o sentence) > chunkSize /\ Len(currentChunk) > 0

\* chunkStep that separates the sentences of a chunk by a newline.
chunkStepJoinNewline(st, sentence, chunkSize, overlap) ==
    IF closesChunk(st.currentChunk, sentence, chunkSize)
    THEN LET words == splitSpace(st.currentChunk)
             overlapWords == slice(words, -(overlap \div 10))
         IN  [chunks |-> Append(st.chunks, trim(st.currentChunk)),
              currentChunk |-> join(overlapWords, <<" ">>) \o <<"\n">> \o sentence]
    ELSE [chunks |-> st.chunks,
          currentChunk |-> st.currentChunk
                           \o (IF st.currentChunk # <<>> THEN <<"\n">> ELSE <<>>)
                           \o sentence]

\* chunkStep that starts the next chunk with the overlap words alone.
chunkStepDropsSentence(st, sentence, chunkSize, overlap) ==
    IF closesChunk(st.currentChunk, sentence, chunkSize)
    THEN LET words == splitSpace(st.currentChunk)
             overlapWords == slice(words, -(overlap \div 10))
         IN  [chunks |-> Append(st.chunks, trim(st.currentChunk)),
              currentChunk |-> join(overlapWords, <<" ">>) \o <<" ">>]
    ELSE [chunks |-> st.chunks,
          currentChunk |-> st.currentChunk
                           \o (IF st.currentChunk # <<>> THEN <<" ">> ELSE <<>>)
                           \o sentence]

\* One iteration of the for loop; st is [chunks, currentChunk].
chunkStep(st, sentence, chunkSize, overlap) ==
    IF closesChunk(st.currentChunk, sentence, chunkSize)
    THEN LET words == splitSpace(st.currentChunk)
             overlapWords == slice(words, -(overlap \div 10))
         IN  [chunks |-> Append(st.chunks, trim(st.currentChunk)),
              currentChunk |-> join(overlapWords, <<" ">>) \o <<" ">> \o sentence]
    ELSE [chunks |-> st.chunks,
          currentChunk |-> st.currentChunk
                           \o (IF st.currentChunk # <<>> THEN <<" ">> ELSE <<>>)
                           \o sentence]

RECURSIVE chunkLoop(_, _, _, _, _)
chunkLoop(st, sentences, k, chunkSize, overlap) ==
    IF k > Len(sentences) THEN st
    ELSE chunkLoop(chunkStep(st, sentences[k], chunkSize, overlap),
                   sentences, k + 1, chunkSize, overlap)

\* chunkFinish without the fallback of line 170: it returns `chunks` as it is.
chunkFinishNoFallback(st, text) ==
    IF trim(st.currentChunk) # <<>>
    THEN Append(st.chunks, trim(st.currentChunk))
    ELSE st.chunks

\* What follows the loop: the last chunk, and the value returned.
chunkFinish(st, text) ==
    LET chunks == IF trim(st.currentChunk) # <<>>
                  THEN Append(st.chunks, trim(st.currentChunk))
                  ELSE st.chunks
    IN  IF Len(chunks) > 0 THEN chunks ELSE <<text>>

chunkText(text, chunkSize, overlap) ==
    chunkFinish(chunkLoop([chunks |-> <<>>, currentChunk |-> <<>>],
                          splitSentences(text), 1, chunkSize, overlap),
                text)

(***************************************************************************)
(* calculateRelevance                                                      *)
(***************************************************************************)

\* What a call does: it returns a value or it throws.
Return(v) == [kind |-> "return", value |-> v]

Throw(e) == [kind |-> "throw", error |-> e]

\* new RegExp(word, 'gi') compiles the query word as a PATTERN.  Of the
\* pattern syntax the modelled alphabet holds '.', which matches any character
\* but a line terminator, and '(', which opens a group: the alphabet has no
\* ')', so a word with '(' is an unterminated group and the constructor throws
\* a SyntaxError.  Every other character of the alphabet matches itself.
regExpSyntaxError(pattern) == \E i \in 1..Len(pattern) : pattern[i] = "("

\* One pattern character against one text character, under the flag 'i'.
regExpCharMatches(p, c) ==
    IF p = "." THEN c # "\n" ELSE lowerChar(p) = lowerChar(c)

regExpMatchesAt(pattern, text, i) ==
    /\ i + Len(pattern) - 1 <= Len(text)
    /\ \A j \in 1..Len(pattern) : regExpCharMatches(pattern[j], text[i + j - 1])

\* The scan of the flag 'g': the leftmost match at or after pos is taken and
\* the scan goes on behind it.  starts is the ordered sequence of all indices
\* where the pattern matches; the result is the number of matches taken.
RECURSIVE regExpScan(_, _, _, _)
regExpScan(starts, k, pos, len) ==
    IF k > Len(starts) THEN 0
    ELSE IF starts[k] < pos THEN regExpScan(starts, k + 1, pos, len)
    ELSE 1 + regExpScan(starts, k + 1, starts[k] + len, len)

\* text.match(new RegExp(word, 'gi')): the number of matches (null is 0).
\* A query word is never empty (its length is > 2).
matchCount(text, pattern) ==
    regExpScan(SelectSeq(Indices(text), LAMBDA i : regExpMatchesAt(pattern, text, i)),
               1, 1, Len(pattern))

RECURSIVE sumMatches(_, _, _)
sumMatches(text, queryWords, k) ==
    IF k > Len(queryWords) THEN 0
    ELSE matchCount(text, queryWords[k]) + sumMatches(text, queryWords, k + 1)

calculateRelevance(text, queryWords) ==
    IF \E k \in 1..Len(queryWords) : regExpSyntaxError(queryWords[k])
    THEN Throw("SyntaxError")
    ELSE LET phrase == join(queryWords, <<" ">>)
         IN  Return(sumMatches(text, queryWords, 1)
                    + (IF includes(text, phrase) THEN Len(queryWords) * 2 ELSE 0))

(***************************************************************************)
(* DocumentStore                                                           *)
(***************************************************************************)

\* findIndex with a predicate that matches no document.
findIndexNoMatch(userDocs, fileName) == -1

\* Array.prototype.findIndex(d => d.fileName === fileName): the 0-based index
\* of the first match, -1 when there is none.
findIndex(userDocs, fileName) ==
    LET hits == SelectSeq(Indices(userDocs), LAMBDA i : userDocs[i].fileName = fileName)
    IN  IF hits = <<>> THEN -1 ELSE hits[1] - 1

\* splice(index) without the delete count: removes everything from index on.
spliceToEnd(arr, index) == SubSeq(arr, 1, index)

\* Array.prototype.splice(index, 1), index 0-based.
splice1(arr, index) == SubSeq(arr, 1, index) \o SubSeq(arr, index + 2, Len(arr))

\* addDocument that removes the document of the same name and pushes the new
\* one, instead of replacing it in place.
addDocumentRemoveAndPush(docs, chatId, fileName, content) ==
    LET withUser == IF chatId \in DOMAIN docs THEN docs ELSE docs @@ (chatId :> <<>>)
        chunks == chunkText(content, DefaultChunkSize, DefaultOverlap)
        doc == [fileName |-> fileName, content |-> content, chunks |-> chunks]
        others == SelectSeq(withUser[chatId], LAMBDA d : d.fileName # fileName)
        newDocs == Append(others, doc)
    IN  [documents |-> [withUser EXCEPT ![chatId] = newDocs],
         ret |-> Return([success |-> TRUE,
                         fileName |-> fileName,
                         chunksCount |-> Len(chunks),
                         totalDocuments |-> Len(newDocs)])]

\* addDocument that, on an overwrite, assigns the new content to the stored
\* document and keeps its chunks.
addDocumentKeepChunks(docs, chatId, fileName, content) ==
    LET withUser == IF chatId \in DOMAIN docs THEN docs ELSE docs @@ (chatId :> <<>>)
        chunks == chunkText(content, DefaultChunkSize, DefaultOverlap)
        doc == [fileName |-> fileName, content |-> content, chunks |-> chunks]
        userDocs == withUser[chatId]
        existingIndex == findIndex(userDocs, fileName)
        newDocs == IF existingIndex >= 0
                   THEN [userDocs EXCEPT ![existingIndex + 1].content = content]
                   ELSE Append(userDocs, doc)
    IN  [documents |-> [withUser EXCEPT ![chatId] = newDocs],
         ret |-> Return([success |-> TRUE,
                         fileName |-> fileName,
                         chunksCount |-> Len(chunks),
                         totalDocuments |-> Len(newDocs)])]

\* addDocument that keeps the document a file name already has.
addDocumentKeepsExisting(docs, chatId, fileName, content) ==
    LET withUser == IF chatId \in DOMAIN docs THEN docs ELSE docs @@ (chatId :> <<>>)
        chunks == chunkText(content, DefaultChunkSize, DefaultOverlap)
        doc == [fileName |-> fileName, content |-> content, chunks |-> chunks]
        userDocs == withUser[chatId]
        existingIndex == findIndex(userDocs, fileName)
        newDocs == IF existingIndex >= 0 THEN userDocs ELSE Append(userDocs, doc)
    IN  [documents |-> [withUser EXCEPT ![chatId] = newDocs],
         ret |-> Return([success |-> TRUE,
                         fileName |-> fileName,
                         chunksCount |-> Len(chunks),
                         totalDocuments |-> Len(newDocs)])]

\* Each store method maps the Map to [documents: the Map after the call,
\* ret: what the call returns].
\* addDocument sets the user's empty collection (lines 14-16) before it calls
\* chunkText (line 18); with a content that has no method split, text.split
\* (line 150) throws a TypeError out of chunkText and out of addDocument.
addDocument(docs, chatId, fileName, content) ==
    LET withUser == IF chatId \in DOMAIN docs THEN docs ELSE docs @@ (chatId :> <<>>)
        chunks == chunkText(content, DefaultChunkSize, DefaultOverlap)
        doc == [fileName |-> fileName, content |-> content, chunks |-> chunks]
        userDocs == withUser[chatId]
        existingIndex == findIndex(userDocs, fileName)
        newDocs == IF existingIndex >= 0
                   THEN [userDocs EXCEPT ![existingIndex + 1] = doc]
                   ELSE Append(userDocs, doc)
    IN  IF typeOf(content) # "string"
        THEN [documents |-> withUser, ret |-> Throw("TypeError")]
        ELSE [documents |-> [withUser EXCEPT ![chatId] = newDocs],
              ret |-> Return([success |-> TRUE,
                              fileName |-> fileName,
                              chunksCount |-> Len(chunks),
                              totalDocuments |-> Len(newDocs)])]

getDocuments(docs, chatId) ==
    IF chatId \in DOMAIN docs THEN docs[chatId] ELSE <<>>

getDocumentCount(docs, chatId) ==
    IF chatId \in DOMAIN docs THEN Len(docs[chatId]) ELSE 0

getDocumentNames(docs, chatId) ==
    LET userDocs == IF chatId \in DOMAIN docs THEN docs[chatId] ELSE <<>>
    IN  [i \in 1..Len(userDocs) |-> userDocs[i].fileName]

deleteDocument(docs, chatId, fileName) ==
    IF chatId \notin DOMAIN docs
    THEN [documents |-> docs, ret |-> Return(FALSE)]
    ELSE LET userDocs == docs[chatId]
             index == findIndex(userDocs, fileName)
         IN  IF index >= 0
             THEN [documents |-> [docs EXCEPT ![chatId] = splice1(userDocs, index)],
                   ret |-> Return(TRUE)]
             ELSE [documents |-> docs, ret |-> Return(FALSE)]

\* clearDocuments that empties the whole Map: this.documents.clear().
clearDocumentsAll(docs, chatId) ==
    [documents |-> <<>>, ret |-> Return(TRUE)]

\* clearDocuments that returns what Map.delete returns: whether the key was
\* there.
clearDocumentsReturnsDeleted(docs, chatId) ==
    [documents |-> [c \in DOMAIN docs \ {chatId} |-> docs[c]],
     ret |-> Return(chatId \in DOMAIN docs)]

clearDocuments(docs, chatId) ==
    [documents |-> [c \in DOMAIN docs \ {chatId} |-> docs[c]],
     ret |-> Return(TRUE)]

getAllContent(docs, chatId) ==
    LET userDocs == IF chatId \in DOMAIN docs THEN docs[chatId] ELSE <<>>
    IN  [i \in 1..Len(userDocs) |->
            [fileName |-> userDocs[i].fileName, content |-> userDocs[i].content]]

(***************************************************************************)
(* searchDocuments                                                         *)
(***************************************************************************)

\* The number of results searchDocuments returns at most: slice(0, 10).
TopResults == 10

\* query.toLowerCase().split(/\s+/).filter(w => w.length > 2)
queryWordsOf(query) ==
    SelectSeq(splitWhitespace(toLowerCase(query)), LAMBDA w : Len(w) > 2)

\* The comparator of results.sort: (a, b) => b.score - a.score.
compareScore(a, b) == b.score - a.score

\* An insertion that puts an element before the elements that compare equal.
sortInsertBeforeEqual(sorted, x) ==
    SelectSeq(sorted, LAMBDA e : compareScore(e, x) < 0)
        \o <<x>>
        \o SelectSeq(sorted, LAMBDA e : compareScore(e, x) >= 0)

\* Array.prototype.sort is stable: an element goes behind every element that
\* the comparator does not put behind it.  `sorted` is already sorted.
sortInsert(sorted, x) ==
    SelectSeq(sorted, LAMBDA e : compareScore(e, x) <= 0)
        \o <<x>>
        \o SelectSeq(sorted, LAMBDA e : compareScore(e, x) > 0)

RECURSIVE sortFrom(_, _, _)
sortFrom(arr, k, sorted) ==
    IF k > Len(arr) THEN sorted ELSE sortFrom(arr, k + 1, sortInsert(sorted, arr[k]))

sort(arr) == sortFrom(arr, 1, <<>>)

\* The two nested for loops: every chunk of every document, in encounter
\* order, with what calculateRelevance does on it.
RECURSIVE scoreChunks(_, _, _)
scoreChunks(userDocs, queryWords, d) ==
    IF d > Len(userDocs) THEN <<>>
    ELSE [c \in 1..Len(userDocs[d].chunks) |->
             [fileName |-> userDocs[d].fileName,
              chunk |-> userDocs[d].chunks[c],
              relevance |-> calculateRelevance(toLowerCase(userDocs[d].chunks[c]),
                                               queryWords)]]
         \o scoreChunks(userDocs, queryWords, d + 1)

\* searchDocuments without the early return for an empty collection, and
\* with the query words compiled before the loops.
searchDocumentsCompileFirst(docs, chatId, query) ==
    LET userDocs == IF chatId \in DOMAIN docs THEN docs[chatId] ELSE <<>>
        queryWords == queryWordsOf(query)
        scored == scoreChunks(userDocs, queryWords, 1)
        hits == SelectSeq(scored, LAMBDA r : r.relevance.value > 0)
        results == [i \in 1..Len(hits) |->
                       [fileName |-> hits[i].fileName,
                        chunk |-> hits[i].chunk,
                        score |-> hits[i].relevance.value]]
    IN  IF \E k \in 1..Len(queryWords) : regExpSyntaxError(queryWords[k])
        THEN Throw("SyntaxError")
        ELSE Return(SubSeq(sort(results), 1, MinOf(TopResults, Len(results))))

searchDocuments(docs, chatId, query) ==
    LET userDocs == IF chatId \in DOMAIN docs THEN docs[chatId] ELSE <<>>
        queryWords == queryWordsOf(query)
        scored == scoreChunks(userDocs, queryWords, 1)
        hits == SelectSeq(scored, LAMBDA r : r.relevance.value > 0)
        results == [i \in 1..Len(hits) |->
                       [fileName |-> hits[i].fileName,
                        chunk |-> hits[i].chunk,
                        score |-> hits[i].relevance.value]]
    IN  IF Len(userDocs) = 0 THEN Return(<<>>)
        ELSE IF \E i \in 1..Len(scored) : scored[i].relevance.kind = "throw"
        THEN Throw("SyntaxError")
        ELSE Return(SubSeq(sort(results), 1, MinOf(TopResults, Len(results))))

(***************************************************************************)
(* generateAnswer (gemini-service.js), up to the call of the remote model  *)
(***************************************************************************)

MaxTotalContext == 100000

\* '\n\n[... document truncated for length ...]'
TruncationMarker ==
    <<"\n", "\n", "[", ".", ".", ".", " ", "d", "o", "c", "u", "m", "e", "n",
      "t", " ", "t", "r", "u", "n", "c", "a", "t", "e", "d", " ", "f", "o",
      "r", " ", "l", "e", "n", "g", "t", "h", " ", ".", ".", ".", "]">>

\* '='.repeat(60)
Rule == [i \in 1..60 |-> "="]

\* '\n📄 DOCUMENT: '; the emoji is the two UTF-16 code units D83D DCC4.
DocumentLabel ==
    <<"\n", "U+D83D", "U+DCC4", " ", "D", "O", "C", "U", "M", "E", "N", "T", ":", " ">>

\* contextPiece that cuts a document whose length is maxPerDoc or more.
contextPieceCutsAtBudget(doc, maxPerDoc) ==
    LET docContent == IF Len(doc.content) >= maxPerDoc
                      THEN SubSeq(doc.content, 1, maxPerDoc) \o TruncationMarker
                      ELSE doc.content
    IN  <<"\n", "\n">> \o Rule \o DocumentLabel \o doc.fileName
            \o <<"\n">> \o Rule \o <<"\n">> \o docContent

\* The body of the for loop for one document: its piece of the context.
contextPiece(doc, maxPerDoc) ==
    LET docContent == IF Len(doc.content) > maxPerDoc
                      THEN SubSeq(doc.content, 1, maxPerDoc) \o TruncationMarker
                      ELSE doc.content
    IN  <<"\n", "\n">> \o Rule \o DocumentLabel \o doc.fileName
            \o <<"\n">> \o Rule \o <<"\n">> \o docContent

RECURSIVE buildContext(_, _, _)
buildContext(allDocs, maxPerDoc, k) ==
    IF k > Len(allDocs) THEN <<>>
    ELSE contextPiece(allDocs[k], maxPerDoc) \o buildContext(allDocs, maxPerDoc, k + 1)

\* generateAnswer without the return for a user without documents.
generateAnswerWithoutShortCircuit(docs, chatId) ==
    LET allDocs == getAllContent(docs, chatId)
        maxPerDoc == IF Len(allDocs) = 0 THEN MaxTotalContext
                     ELSE MaxTotalContext \div Len(allDocs)
    IN  Return([calledModel |-> TRUE,
                context |-> buildContext(allDocs, maxPerDoc, 1),
                sources |-> [i \in 1..Len(allDocs) |-> allDocs[i].fileName]])

\* generateAnswer that lists as sources the documents it did not truncate.
generateAnswerSourcesOfWhole(docs, chatId) ==
    LET allDocs == getAllContent(docs, chatId)
    IN  IF Len(allDocs) = 0
        THEN Return([calledModel |-> FALSE, context |-> <<>>, sources |-> <<>>])
        ELSE LET maxPerDoc == MaxTotalContext \div Len(allDocs)
                 whole == SelectSeq(allDocs, LAMBDA d : Len(d.content) <= maxPerDoc)
             IN  Return([calledModel |-> TRUE,
                         context |-> buildContext(allDocs, maxPerDoc, 1),
                         sources |-> [i \in 1..Len(whole) |-> whole[i].fileName]])

\* generateAnswer up to `await callGemini(context, question, sources)`: with
\* no document it returns at once, with sources []; else it has built the
\* context and the sources the remote model is called with.  The answer text
\* is the remote model's and is not modelled.
generateAnswer(docs, chatId) ==
    LET allDocs == getAllContent(docs, chatId)
    IN  IF Len(allDocs) = 0
        THEN Return([calledModel |-> FALSE, context |-> <<>>, sources |-> <<>>])
        ELSE LET maxPerDoc == MaxTotalContext \div Len(allDocs)
             IN  Return([calledModel |-> TRUE,
                         context |-> buildContext(allDocs, maxPerDoc, 1),
                         sources |-> [i \in 1..Len(allDocs) |-> allDocs[i].fileName]])

(***************************************************************************)
(* The inputs of the calls                                                 *)
(***************************************************************************)

\* Telegram chat ids.
ChatIds == {101, 202}

\* The number of distinct file names the first user uploads.
NumFiles == 3

Digits == <<"0", "1", "2", "3", "4", "5", "6", "7", "8", "9">>

\* The file name "f<i>.pdf", i < 100.
fileNameOf(i) ==
    <<"f">> \o (IF i >= 10 THEN <<Digits[(i \div 10) + 1]>> ELSE <<>>)
            \o <<Digits[(i % 10) + 1]>> \o <<".", "p", "d", "f">>

Files == {fileNameOf(i) : i \in 1..NumFiles}

\* "Abc abc. b"
TextX == <<"A", "b", "c", " ", "a", "b", "c", ".", " ", "b">>

\* "abc"
TextY == <<"a", "b", "c">>

Contents == {TextX, TextY}

\* What a user uploads, as <<fileName, content>>: user 101 every file name
\* with every content, user 202 the one file f1.pdf with TextX.
UploadsOf(chatId) ==
    IF chatId = 101 THEN Files \X Contents ELSE {<<fileNameOf(1), TextX>>}

\* The queries "abc", "a.c" and "(ab".
Queries == {<<"a", "b", "c">>, <<"a", ".", "c">>, <<"(", "a", "b">>}

\* A text longer than DefaultChunkSize: two sentences of LongWords words
\* "abc" each, the sentences separated by one space.
LongWords == 400

LongSentence ==
    [i \in 1..(4 * LongWords) |->
        IF i = 4 * LongWords THEN "." ELSE <<"a", "b", "c", " ">>[((i - 1) % 4) + 1]]

LongText == LongSentence \o <<" ">> \o LongSentence

\* The uploads of LongSpec.
LongFiles == {fileNameOf(1), fileNameOf(2)}

LongContents == {TextX, TextY, LongText}

\* The uploads and queries of SearchSpec: "abb abb abc" and "abb", searched
\* for "abc" and for "abb"; MaxSearchDocs bounds the number of documents.
MaxSearchDocs == 11

TextP == <<"a", "b", "b", " ", "a", "b", "b", " ", "a", "b", "c">>

TextQ == <<"a", "b", "b">>

SearchContents == {TextP, TextQ}

SearchQueries == {<<"a", "b", "c">>, <<"a", "b", "b">>}

(***************************************************************************)
(* The store under every sequence of calls                                 *)
(***************************************************************************)

\* No call of chunkText is being stepped through.
NoFrame == [pc |-> "none"]

\* No message has arrived at the bot: handlers is the sequence of the
\* handler invocations in the order the messages arrived, with the locals of
\* each; effects[h] is the sequence of the calls handler h has made to the
\* Telegram API, to axios and to sleep; storeCalls is the sequence of the
\* calls of addDocument and clearDocuments the handlers have made.
NoHandlers ==
    /\ handlers = <<>>
    /\ effects = <<>>
    /\ storeCalls = <<>>

\* `call` is the call made last and `ret` what it did; everAdded is the set
\* of chat ids addDocument was ever called with; frame holds the locals of a
\* call of chunkText that is executed step by step.
Init ==
    /\ documents = <<>>
    /\ call = [op |-> "constructor"]
    /\ ret = Return("DocumentStore")
    /\ everAdded = {}
    /\ frame = NoFrame
    /\ NoHandlers

AddDocument(chatId, fileName, content) ==
    LET r == addDocument(documents, chatId, fileName, content)
    IN  /\ documents' = r.documents
        /\ ret' = r.ret
        /\ call' = [op |-> "addDocument", chatId |-> chatId,
                    fileName |-> fileName, content |-> content]
        /\ everAdded' = everAdded \cup {chatId}
        /\ UNCHANGED <<frame, botVars>>

DeleteDocument(chatId, fileName) ==
    LET r == deleteDocument(documents, chatId, fileName)
    IN  /\ documents' = r.documents
        /\ ret' = r.ret
        /\ call' = [op |-> "deleteDocument", chatId |-> chatId, fileName |-> fileName]
        /\ UNCHANGED <<everAdded, frame, botVars>>

ClearDocuments(chatId) ==
    LET r == clearDocuments(documents, chatId)
    IN  /\ documents' = r.documents
        /\ ret' = r.ret
        /\ call' = [op |-> "clearDocuments", chatId |-> chatId]
        /\ UNCHANGED <<everAdded, frame, botVars>>

GetDocuments(chatId) ==
    /\ ret' = Return(getDocuments(documents, chatId))
    /\ call' = [op |-> "getDocuments", chatId |-> chatId]
    /\ UNCHANGED <<documents, everAdded, frame, botVars>>

GetDocumentCount(chatId) ==
    /\ ret' = Return(getDocumentCount(documents, chatId))
    /\ call' = [op |-> "getDocumentCount", chatId |-> chatId]
    /\ UNCHANGED <<documents, everAdded, frame, botVars>>

GetDocumentNames(chatId) ==
    /\ ret' = Return(getDocumentNames(documents, chatId))
    /\ call' = [op |-> "getDocumentNames", chatId |-> chatId]
    /\ UNCHANGED <<documents, everAdded, frame, botVars>>

GetAllContent(chatId) ==
    /\ ret' = Return(getAllContent(documents, chatId))
    /\ call' = [op |-> "getAllContent", chatId |-> chatId]
    /\ UNCHANGED <<documents, everAdded, frame, botVars>>

SearchDocuments(chatId, query) ==
    /\ ret' = searchDocuments(documents, chatId, query)
    /\ call' = [op |-> "searchDocuments", chatId |-> chatId, query |-> query]
    /\ UNCHANGED <<documents, everAdded, frame, botVars>>

GenerateAnswer(chatId) ==
    /\ ret' = generateAnswer(documents, chatId)
    /\ call' = [op |-> "generateAnswer", chatId |-> chatId]
    /\ UNCHANGED <<documents, everAdded, frame, botVars>>

Next ==
    \/ \E c \in ChatIds : \E u \in UploadsOf(c) : AddDocument(c, u[1], u[2])
    \/ \E c \in ChatIds, f \in Files : DeleteDocument(c, f)
    \/ \E c \in ChatIds : ClearDocuments(c)
    \/ \E c \in ChatIds : GetDocuments(c)
    \/ \E c \in ChatIds : GetDocumentCount(c)
    \/ \E c \in ChatIds : GetDocumentNames(c)
    \/ \E c \in ChatIds : GetAllContent(c)
    \/ \E c \in ChatIds, q \in Queries : SearchDocuments(c, q)
    \/ \E c \in ChatIds : GenerateAnswer(c)

Spec == Init /\ [][Next]_vars

\* One user's uploads, with a text of more than one chunk among them.
NextLong ==
    \/ \E f \in LongFiles, x \in LongContents : AddDocument(101, f, x)
    \/ \E f \in LongFiles : DeleteDocument(101, f)
    \/ ClearDocuments(101)
    \/ GetDocuments(101)
    \/ GetAllContent(101)
    \/ GenerateAnswer(101)

LongSpec == Init /\ [][NextLong]_vars

\* One user uploads up to MaxSearchDocs documents, each under a new file
\* name, and searches them.
NextSearch ==
    \/ \E x \in SearchContents :
          /\ getDocumentCount(documents, 101) < MaxSearchDocs
          /\ AddDocument(101, fileNameOf(getDocumentCount(documents, 101) + 1), x)
    \/ \E q \in SearchQueries : SearchDocuments(101, q)

SearchSpec == Init /\ [][NextSearch]_vars

\* The contents of ContentSpec: every text of up to MaxContentLen characters
\* over ChunkAlphabet, and LongText, which is stored as two chunks.
MaxContentLen == 3

ChunkAlphabet == {"a", ".", " ", "\n"}

ShortContents == UNION {[1..n -> ChunkAlphabet] : n \in 0..MaxContentLen}

\* One user stores, under one file name, every such content.
NextContent ==
    \/ \E x \in ShortContents \cup {LongText} : AddDocument(101, fileNameOf(1), x)
    \/ ClearDocuments(101)
    \/ GetDocuments(101)

ContentSpec == Init /\ [][NextContent]_vars

\* The documents of ContextSpec: up to MaxContextDocs documents.  With
\* MaxContextDocs documents the budget of a document is
\* MaxTotalContext \div MaxContextDocs characters (3333): the long contents
\* have that length, one character more, and twice that length.
MaxContextDocs == 30

\* A text of n characters: words of nine decimal digits separated by one
\* space, every 200th word with a full stop for its last character.
digitText(n) ==
    SubSeq([i \in 1..n |->
               IF i % 10 = 0 THEN " "
               ELSE IF i % 2000 = 1999 THEN "."
               ELSE Digits[(i % 10) + 1]], 1, n)

ContextContents ==
    {TextY,
     digitText(MaxTotalContext \div MaxContextDocs),
     digitText((MaxTotalContext \div MaxContextDocs) + 1),
     digitText(2 * (MaxTotalContext \div MaxContextDocs))}

\* The contents the i-th upload is drawn from: "abc" for all but the last
\* three uploads, which are drawn from ContextContents.
ContextUploads(i) == IF i > MaxContextDocs - 3 THEN ContextContents ELSE {TextY}

\* One user uploads documents, each under a new file name, and asks.
NextContext ==
    \/ /\ getDocumentCount(documents, 101) < MaxContextDocs
       /\ \E x \in ContextUploads(getDocumentCount(documents, 101) + 1) :
             AddDocument(101, fileNameOf(getDocumentCount(documents, 101) + 1), x)
    \/ ClearDocuments(101)
    \/ GetAllContent(101)
    \/ GenerateAnswer(101)

ContextSpec == Init /\ [][NextContext]_vars

\* The documents of CapSpec: up to MaxCapDocs documents, each of
\* MaxTotalContext \div MaxCapDocs characters (2000), the budget of a
\* document when all MaxCapDocs are uploaded.
MaxCapDocs == 50

\* The stores after 0, 1, ..., k uploads of such documents by one user.
RECURSIVE uploaded(_)
uploaded(k) ==
    IF k = 0 THEN << <<>> >>
    ELSE LET before == uploaded(k - 1)
         IN  Append(before,
                    addDocument(before[k], 101, fileNameOf(k),
                                digitText(MaxTotalContext \div MaxCapDocs)).documents)

\* The user has uploaded some of the documents already.
CapInit ==
    /\ documents \in {uploaded(MaxCapDocs)[k + 1] : k \in 0..MaxCapDocs}
    /\ call = [op |-> "constructor"]
    /\ ret = Return("DocumentStore")
    /\ everAdded = {}
    /\ frame = NoFrame
    /\ NoHandlers

\* The user uploads the next document, clears, and asks.
NextCap ==
    \/ /\ getDocumentCount(documents, 101) < MaxCapDocs
       /\ AddDocument(101, fileNameOf(getDocumentCount(documents, 101) + 1),
                      digitText(MaxTotalContext \div MaxCapDocs))
    \/ ClearDocuments(101)
    \/ GetAllContent(101)
    \/ GenerateAnswer(101)

CapSpec == CapInit /\ [][NextCap]_vars

(***************************************************************************)
(* The bot's handlers of documents and of /clear                           *)
(***************************************************************************)

\* String.prototype.endsWith
endsWith(s, suffix) ==
    /\ Len(suffix) <= Len(s)
    /\ SubSeq(s, Len(s) - Len(suffix) + 1, Len(s)) = suffix

\* '.pdf'
DotPdf == <<".", "p", "d", "f">>

\* The largest file_size for which file_size / (1024 * 1024) > 20 is false.
MaxUploadBytes == 20 * 1024 * 1024

\* uploadAccepted without the check of the file size.
uploadAcceptedAnySize(document) ==
    endsWith(toLowerCase(document.file_name), DotPdf)

\* The two checks of the document handler before it processes the file.
uploadAccepted(document) ==
    /\ endsWith(toLowerCase(document.file_name), DotPdf)
    /\ ~(document.file_size > MaxUploadBytes)

\* What handler h has called so far, with the call e added.
calls(h, e) == [effects EXCEPT ![h] = Append(@, e)]

\* The text processPDF extracts from the file of a file_id.
extractedText(file_id) == IF file_id = "fileX" THEN TextX ELSE TextY

\* A document message arrives: the handler runs to its first await, the
\* sendMessage of the refusal or of the processing message.
ReceiveDocument(chatId, document) ==
    /\ handlers' = Append(handlers,
                          [kind |-> "document", chatId |-> chatId, document |-> document,
                           pc |-> IF uploadAccepted(document)
                                  THEN "processingMsg" ELSE "refused"])
    /\ effects' = Append(effects,
          << [api |-> "sendMessage",
              text |-> IF ~endsWith(toLowerCase(document.file_name), DotPdf)
                       THEN "Please upload PDF files only."
                       ELSE IF document.file_size > MaxUploadBytes
                       THEN "File too large"
                       ELSE "Processing"] >>)
    /\ UNCHANGED <<documents, call, ret, everAdded, frame, storeCalls>>

\* The sendMessage of the refusal resolves and the handler returns.
DocumentRefused(h) ==
    /\ handlers[h].kind = "document"
    /\ handlers[h].pc = "refused"
    /\ handlers' = [handlers EXCEPT ![h].pc = "done"]
    /\ UNCHANGED <<documents, call, ret, everAdded, frame, effects, storeCalls>>

\* The sendMessage of the processing message resolves and the handler calls
\* processPDF.
DocumentProcessing(h) ==
    /\ handlers[h].kind = "document"
    /\ handlers[h].pc = "processingMsg"
    /\ handlers' = [handlers EXCEPT ![h].pc = "processPDF"]
    /\ UNCHANGED <<documents, call, ret, everAdded, frame, effects, storeCalls>>

\* ProcessPDFResolves that does not store the document when the collection
\* was cleared by a handler of a later message.
ProcessPDFResolvesUnlessCleared(h) ==
    /\ handlers[h].kind = "document"
    /\ handlers[h].pc = "processPDF"
    /\ LET chatId == handlers[h].chatId
           result == [fileName |-> handlers[h].document.file_name,
                      content |-> extractedText(handlers[h].document.file_id)]
           r == addDocument(documents, chatId, result.fileName, result.content)
       IN  IF \E i \in 1..Len(storeCalls) :
                 storeCalls[i].op = "clearDocuments" /\ storeCalls[i].h > h
           THEN /\ effects' = calls(h, [api |-> "editMessageText",
                                        text |-> "PDF Uploaded Successfully",
                                        totalDocuments |-> getDocumentCount(documents, chatId)])
                /\ UNCHANGED <<documents, call, ret, everAdded, storeCalls>>
           ELSE /\ documents' = r.documents
                /\ ret' = r.ret
                /\ call' = [op |-> "addDocument", chatId |-> chatId,
                            fileName |-> result.fileName, content |-> result.content]
                /\ everAdded' = everAdded \cup {chatId}
                /\ storeCalls' = Append(storeCalls,
                      [h |-> h, op |-> "addDocument", chatId |-> chatId,
                       fileName |-> result.fileName, content |-> result.content])
                /\ effects' = calls(h, [api |-> "editMessageText",
                                        text |-> "PDF Uploaded Successfully",
                                        totalDocuments |-> r.ret.value.totalDocuments])
    /\ handlers' = [handlers EXCEPT ![h].pc = "successMsg"]
    /\ UNCHANGED frame

\* processPDF resolves: the handler calls addDocument with the file name and
\* the text of the result, and edits the processing message.
ProcessPDFResolves(h) ==
    /\ handlers[h].kind = "document"
    /\ handlers[h].pc = "processPDF"
    /\ LET chatId == handlers[h].chatId
           result == [fileName |-> handlers[h].document.file_name,
                      content |-> extractedText(handlers[h].document.file_id)]
           r == addDocument(documents, chatId, result.fileName, result.content)
       IN  /\ documents' = r.documents
           /\ ret' = r.ret
           /\ call' = [op |-> "addDocument", chatId |-> chatId,
                       fileName |-> result.fileName, content |-> result.content]
           /\ everAdded' = everAdded \cup {chatId}
           /\ storeCalls' = Append(storeCalls,
                 [h |-> h, op |-> "addDocument", chatId |-> chatId,
                  fileName |-> result.fileName, content |-> result.content])
           /\ effects' = calls(h, [api |-> "editMessageText",
                                   text |-> "PDF Uploaded Successfully",
                                   totalDocuments |-> r.ret.value.totalDocuments])
    /\ handlers' = [handlers EXCEPT ![h].pc = "successMsg"]
    /\ UNCHANGED frame

\* processPDF throws: the handler edits the processing message to the error.
ProcessPDFRejects(h) ==
    /\ handlers[h].kind = "document"
    /\ handlers[h].pc = "processPDF"
    /\ handlers' = [handlers EXCEPT ![h].pc = "failureMsg"]
    /\ effects' = calls(h, [api |-> "editMessageText", text |-> "Failed to process"])
    /\ UNCHANGED <<documents, call, ret, everAdded, frame, storeCalls>>

\* The editMessageText of the success or of the failure resolves.
DocumentReported(h) ==
    /\ handlers[h].kind = "document"
    /\ handlers[h].pc \in {"successMsg", "failureMsg"}
    /\ handlers' = [handlers EXCEPT ![h].pc = "done"]
    /\ UNCHANGED <<documents, call, ret, everAdded, frame, effects, storeCalls>>

\* A call of the Telegram API by the document handler rejects: outside the
\* try block the handler ends with that rejection, inside it (the edit to the
\* success message) the catch block edits the message to the error.
DocumentTelegramRejects(h) ==
    /\ handlers[h].kind = "document"
    /\ handlers[h].pc \in {"refused", "processingMsg", "successMsg", "failureMsg"}
    /\ IF handlers[h].pc = "successMsg"
       THEN /\ handlers' = [handlers EXCEPT ![h].pc = "failureMsg"]
            /\ effects' = calls(h, [api |-> "editMessageText", text |-> "Failed to process"])
       ELSE /\ handlers' = [handlers EXCEPT ![h].pc = "rejected"]
            /\ UNCHANGED effects
    /\ UNCHANGED <<documents, call, ret, everAdded, frame, storeCalls>>

\* A /clear message arrives: the handler reads the count, clears the
\* collection when it is not empty, and awaits the sendMessage of its reply.
ReceiveClear(chatId) ==
    LET docCount == getDocumentCount(documents, chatId)
        r == clearDocuments(documents, chatId)
    IN  /\ handlers' = Append(handlers,
                              [kind |-> "clear", chatId |-> chatId,
                               docCount |-> docCount, pc |-> "reply"])
        /\ IF docCount = 0
           THEN /\ call' = [op |-> "getDocumentCount", chatId |-> chatId]
                /\ ret' = Return(docCount)
                /\ effects' = Append(effects,
                      << [api |-> "sendMessage", text |-> "No documents to delete."] >>)
                /\ UNCHANGED <<documents, storeCalls>>
           ELSE /\ documents' = r.documents
                /\ ret' = r.ret
                /\ call' = [op |-> "clearDocuments", chatId |-> chatId]
                /\ storeCalls' = Append(storeCalls,
                      [h |-> Len(handlers) + 1, op |-> "clearDocuments", chatId |-> chatId])
                /\ effects' = Append(effects,
                      << [api |-> "sendMessage", text |-> "Deleted",
                          docCount |-> docCount] >>)
        /\ UNCHANGED <<everAdded, frame>>

\* The sendMessage of the reply to /clear resolves or rejects.
ClearReplied(h) ==
    /\ handlers[h].kind = "clear"
    /\ handlers[h].pc = "reply"
    /\ \E pc \in {"done", "rejected"} : handlers' = [handlers EXCEPT ![h].pc = pc]
    /\ UNCHANGED <<documents, call, ret, everAdded, frame, effects, storeCalls>>

\* The messages of UploadSpec: at most MaxHandlers messages of one chat.
MaxHandlers == 3

\* The documents sent: two files under the same name, a file under the name
\* in capitals, a file that is not a PDF by its name, a file of 20 MB and one
\* byte, and a file whose name is shorter than '.pdf'.
UploadedDocuments ==
    {[file_id |-> "fileX", file_name |-> fileNameOf(1), file_size |-> MaxUploadBytes],
     [file_id |-> "fileY", file_name |-> fileNameOf(1), file_size |-> 1024],
     [file_id |-> "fileY", file_name |-> <<"F", "1", ".", "P", "D", "F">>, file_size |-> 1024],
     [file_id |-> "fileX", file_name |-> <<"f", "1", ".", "t", "x", "t">>, file_size |-> 1024],
     [file_id |-> "fileX", file_name |-> fileNameOf(1), file_size |-> MaxUploadBytes + 1],
     [file_id |-> "fileX", file_name |-> <<"p", "d", "f">>, file_size |-> 1024]}

NextUpload ==
    \/ /\ Len(handlers) < MaxHandlers
       /\ \E d \in UploadedDocuments : ReceiveDocument(101, d)
    \/ /\ Len(handlers) < MaxHandlers
       /\ ReceiveClear(101)
    \/ \E h \in 1..Len(handlers) : DocumentRefused(h)
    \/ \E h \in 1..Len(handlers) : DocumentProcessing(h)
    \/ \E h \in 1..Len(handlers) : ProcessPDFResolves(h)
    \/ \E h \in 1..Len(handlers) : ProcessPDFRejects(h)
    \/ \E h \in 1..Len(handlers) : DocumentReported(h)
    \/ \E h \in 1..Len(handlers) : DocumentTelegramRejects(h)
    \/ \E h \in 1..Len(handlers) : ClearReplied(h)

UploadSpec == Init /\ [][NextUpload]_vars

(***************************************************************************)
(* The bot's handler of questions, generateAnswer and callGemini           *)
(***************************************************************************)

\* The answer of generateAnswer for a user without documents.
NoDocumentsAnswer ==
    <<"U+274C", " ", "N", "o", " ", "d", "o", "c", "u", "m", "e", "n", "t",
      "s", " ", "u", "p", "l", "o", "a", "d", "e", "d", " ", "y", "e", "t",
      ".", " ", "P", "l", "e", "a", "s", "e", " ", "u", "p", "l", "o", "a",
      "d", " ", "P", "D", "F", " ", "f", "i", "l", "e", "s", " ", "f", "i",
      "r", "s", "t", " ", "b", "y", " ", "s", "e", "n", "d", "i", "n", "g",
      " ", "P", "D", "F", " ", "f", "i", "l", "e", "s", " ", "t", "o", " ",
      "m", "e", ".">>

\* The answers of callGemini that are not the model's text.
SorryAnswer ==
    <<"S", "o", "r", "r", "y", ",", " ", "I", " ", "c", "o", "u", "l", "d",
      "n", "'", "t", " ", "g", "e", "n", "e", "r", "a", "t", "e", " ", "a",
      " ", "r", "e", "s", "p", "o", "n", "s", "e", ".", " ", "P", "l", "e",
      "a", "s", "e", " ", "t", "r", "y", " ", "a", "g", "a", "i", "n", ".">>

RateLimitAnswer ==
    <<"U+26A0", "U+FE0F", " ", "A", "P", "I", " ", "r", "a", "t", "e", " ",
      "l", "i", "m", "i", "t", " ", "r", "e", "a", "c", "h", "e", "d", ".",
      " ", "T", "h", "e", " ", "f", "r", "e", "e", " ", "t", "i", "e", "r",
      " ", "a", "l", "l", "o", "w", "s", " ", "l", "i", "m", "i", "t", "e",
      "d", " ", "r", "e", "q", "u", "e", "s", "t", "s", " ", "p", "e", "r",
      " ", "m", "i", "n", "u", "t", "e", ".", " ", "P", "l", "e", "a", "s",
      "e", " ", "w", "a", "i", "t", " ", "1", "-", "2", " ", "m", "i", "n",
      "u", "t", "e", "s", " ", "a", "n", "d", " ", "t", "r", "y", " ", "a",
      "g", "a", "i", "n", ".">>

OverloadedAnswer ==
    <<"U+26A0", "U+FE0F", " ", "T", "h", "e", " ", "A", "I", " ", "s", "e",
      "r", "v", "i", "c", "e", " ", "i", "s", " ", "t", "e", "m", "p", "o",
      "r", "a", "r", "i", "l", "y", " ", "o", "v", "e", "r", "l", "o", "a",
      "d", "e", "d", ".", " ", "P", "l", "e", "a", "s", "e", " ", "t", "r",
      "y", " ", "a", "g", "a", "i", "n", " ", "i", "n", " ", "a", " ", "f",
      "e", "w", " ", "s", "e", "c", "o", "n", "d", "s", ".">>

ApiErrorPrefix ==
    <<"U+274C", " ", "A", "P", "I", " ", "E", "r", "r", "o", "r", ":", " ">>

\* '\n\n📄 Sources: '
SourcesLabel ==
    <<"\n", "\n", "U+D83D", "U+DCC4", " ", "S", "o", "u", "r", "c", "e", "s",
      ":", " ">>

\* The texts of the question handler's own messages.
NoDocumentsText ==
    <<"U+D83D", "U+DCED", " ", "N", "o", " ", "d", "o", "c", "u", "m", "e",
      "n", "t", "s", " ", "u", "p", "l", "o", "a", "d", "e", "d", " ", "y",
      "e", "t", ".", "\n", "\n", "S", "e", "n", "d", " ", "P", "D", "F", "s",
      " ", "f", "i", "r", "s", "t", ".">>

SearchingPrefix ==
    <<"U+D83D", "U+DD0D", " ", "S", "e", "a", "r", "c", "h", "i", "n", "g",
      " ", "a", "c", "r", "o", "s", "s", " ">>

SearchingSuffix ==
    <<" ", "d", "o", "c", "u", "m", "e", "n", "t", "(", "s", ")", ".", ".",
      ".">>

QuestionErrorText ==
    <<"U+274C", " ", "E", "r", "r", "o", "r", " ", "w", "h", "i", "l", "e",
      " ", "p", "r", "o", "c", "e", "s", "s", "i", "n", "g", " ", "y", "o",
      "u", "r", " ", "q", "u", "e", "s", "t", "i", "o", "n", ".", "\n", "P",
      "l", "e", "a", "s", "e", " ", "t", "r", "y", " ", "a", "g", "a", "i",
      "n", ".">>

\* MAX_RETRIES and BASE_DELAY of callGemini.
CallGeminiMaxRetries == 3

BaseDelay == 3000

\* The length above which the response is sent in pieces, and the length of
\* a piece: `response.length > 4000` and /[\s\S]{1,4000}/g.
MessageLimit == 4000

\* Math.pow(2, n)
RECURSIVE pow2(_)
pow2(n) == IF n = 0 THEN 1 ELSE 2 * pow2(n - 1)

\* The decimal digits of a number in a template string.
RECURSIVE decimal(_)
decimal(n) ==
    IF n < 10 THEN <<Digits[n + 1]>>
    ELSE decimal(n \div 10) \o <<Digits[(n % 10) + 1]>>

\* The outcome of an axios.post to the model is a response with the text of
\* the first candidate (<<>> when there is none), or an error with the status
\* of its response (0 when it has no response) and the message of the API
\* error in it (<<>> when there is none).

\* afterPost that retries once more.
afterPostOneMoreRetry(retryCount, outcome) ==
    IF outcome.kind = "response"
    THEN [do |-> "return",
          answer |-> IF outcome.text # <<>> THEN outcome.text ELSE SorryAnswer]
    ELSE IF outcome.status \in {429, 503} /\ retryCount <= CallGeminiMaxRetries
    THEN [do |-> "retry", delay |-> BaseDelay * pow2(retryCount)]
    ELSE IF outcome.status = 429 THEN [do |-> "return", answer |-> RateLimitAnswer]
    ELSE IF outcome.status = 503 THEN [do |-> "return", answer |-> OverloadedAnswer]
    ELSE IF outcome.message # <<>>
    THEN [do |-> "return", answer |-> ApiErrorPrefix \o outcome.message]
    ELSE [do |-> "throw"]

\* What callGemini does with the outcome of its request: return an answer,
\* sleep and call itself with retryCount + 1, or rethrow.
afterPost(retryCount, outcome) ==
    IF outcome.kind = "response"
    THEN [do |-> "return",
          answer |-> IF outcome.text # <<>> THEN outcome.text ELSE SorryAnswer]
    ELSE IF outcome.status \in {429, 503} /\ retryCount < CallGeminiMaxRetries
    THEN [do |-> "retry", delay |-> BaseDelay * pow2(retryCount)]
    ELSE IF outcome.status = 429 THEN [do |-> "return", answer |-> RateLimitAnswer]
    ELSE IF outcome.status = 503 THEN [do |-> "return", answer |-> OverloadedAnswer]
    ELSE IF outcome.message # <<>>
    THEN [do |-> "return", answer |-> ApiErrorPrefix \o outcome.message]
    ELSE [do |-> "throw"]

\* matchChunks that keeps the pieces of full length only.
matchChunksOfFullLength(text) ==
    [k \in 1..(Len(text) \div MessageLimit) |->
        SubSeq(text, (k - 1) * MessageLimit + 1, k * MessageLimit)]

\* text.match(/[\s\S]{1,4000}/g) of a text that is not empty.
matchChunks(text) ==
    [k \in 1..((Len(text) + MessageLimit - 1) \div MessageLimit) |->
        SubSeq(text, (k - 1) * MessageLimit + 1, MinOf(k * MessageLimit, Len(text)))]

\* The response the question handler makes of the result of generateAnswer.
responseOf(result) ==
    IF Len(result.sources) > 0
    THEN result.answer \o SourcesLabel \o join(result.sources, <<",", " ">>)
    ELSE result.answer

\* The question handler, with the locals rec, has the result of
\* generateAnswer: it deletes the processing message when the response is
\* longer than 4000 characters, and edits it to the response when not.
deliver(rec, result) ==
    LET response == responseOf(result)
    IN  IF Len(response) > MessageLimit
        THEN [handler |-> [rec EXCEPT !.result = result, !.response = response,
                                      !.pc = "deleteMsg"],
              effect |-> [api |-> "deleteMessage", message |-> "processingMsg"]]
        ELSE [handler |-> [rec EXCEPT !.result = result, !.response = response,
                                      !.pc = "answerMsg"],
              effect |-> [api |-> "editMessageText", message |-> "processingMsg",
                          text |-> response]]

\* A text message arrives: the handler returns for a command, and runs to
\* its first await, the sendMessage for a user without documents or the
\* sendChatAction, for a question.
ReceiveText(chatId, text) ==
    LET docCount == getDocumentCount(documents, chatId)
        locals == [kind |-> "text", chatId |-> chatId, text |-> text, docCount |-> 0,
                   asked |-> FALSE, allDocs |-> <<>>, context |-> <<>>, sources |-> <<>>,
                   retryCount |-> 0, outcomes |-> <<>>, result |-> [kind |-> "none"],
                   response |-> <<>>, sent |-> 0, pc |-> "done"]
    IN  /\ IF startsWith(text, <<"/">>)
           THEN /\ handlers' = Append(handlers, locals)
                /\ effects' = Append(effects, <<>>)
                /\ UNCHANGED <<call, ret>>
           ELSE /\ call' = [op |-> "getDocumentCount", chatId |-> chatId]
                /\ ret' = Return(docCount)
                /\ IF docCount = 0
                   THEN /\ handlers' = Append(handlers, [locals EXCEPT !.pc = "noDocsMsg"])
                        /\ effects' = Append(effects,
                              << [api |-> "sendMessage", text |-> NoDocumentsText] >>)
                   ELSE /\ handlers' = Append(handlers,
                              [locals EXCEPT !.docCount = docCount, !.pc = "chatAction"])
                        /\ effects' = Append(effects,
                              << [api |-> "sendChatAction", action |-> "typing"] >>)
        /\ UNCHANGED <<documents, everAdded, frame, storeCalls>>

\* sendChatAction resolves and the handler sends the processing message.
TextChatAction(h) ==
    /\ handlers[h].kind = "text"
    /\ handlers[h].pc = "chatAction"
    /\ handlers' = [handlers EXCEPT ![h].pc = "processingMsg"]
    /\ effects' = calls(h, [api |-> "sendMessage",
                            text |-> SearchingPrefix \o decimal(handlers[h].docCount)
                                        \o SearchingSuffix])
    /\ UNCHANGED <<documents, call, ret, everAdded, frame, storeCalls>>

\* The processing message is sent and the handler calls generateAnswer, which
\* returns at once for a user without documents, and assembles the context
\* and posts callGemini's first request for the others.
TextAsks(h) ==
    /\ handlers[h].kind = "text"
    /\ handlers[h].pc = "processingMsg"
    /\ LET chatId == handlers[h].chatId
           r == generateAnswer(documents, chatId)
           rec == [handlers[h] EXCEPT !.asked = TRUE,
                                      !.allDocs = getAllContent(documents, chatId)]
           d == deliver(rec, [kind |-> "answer", answer |-> NoDocumentsAnswer,
                              sources |-> <<>>])
       IN  /\ call' = [op |-> "generateAnswer", chatId |-> chatId]
           /\ ret' = r
           /\ IF ~r.value.calledModel
              THEN /\ handlers' = [handlers EXCEPT ![h] = d.handler]
                   /\ effects' = calls(h, d.effect)
              ELSE /\ handlers' = [handlers EXCEPT ![h] =
                          [rec EXCEPT !.context = r.value.context,
                                      !.sources = r.value.sources, !.pc = "post"]]
                   /\ effects' = calls(h, [api |-> "axios.post",
                                           context |-> r.value.context])
    /\ UNCHANGED <<documents, everAdded, frame, storeCalls>>

\* The request to the model has its outcome.
PostResolves(h, outcome) ==
    /\ handlers[h].kind = "text"
    /\ handlers[h].pc = "post"
    /\ LET next == afterPost(handlers[h].retryCount, outcome)
           rec == [handlers[h] EXCEPT !.outcomes = Append(@, outcome)]
           d == deliver(rec, [kind |-> "answer", answer |-> next.answer,
                              sources |-> rec.sources])
       IN  CASE next.do = "return" ->
                    /\ handlers' = [handlers EXCEPT ![h] = d.handler]
                    /\ effects' = calls(h, d.effect)
             [] next.do = "retry" ->
                    /\ handlers' = [handlers EXCEPT ![h] = [rec EXCEPT !.pc = "sleep"]]
                    /\ effects' = calls(h, [api |-> "sleep", ms |-> next.delay])
             [] next.do = "throw" ->
                    /\ handlers' = [handlers EXCEPT ![h] =
                          [rec EXCEPT !.result = [kind |-> "throw"], !.pc = "errorMsg"]]
                    /\ effects' = calls(h, [api |-> "editMessageText",
                                            message |-> "processingMsg",
                                            text |-> QuestionErrorText])
    /\ UNCHANGED <<documents, call, ret, everAdded, frame, storeCalls>>

\* SleepResolves that assembles the context of the retry anew.
SleepResolvesWithNewContext(h) ==
    /\ handlers[h].kind = "text"
    /\ handlers[h].pc = "sleep"
    /\ handlers' = [handlers EXCEPT ![h].retryCount = @ + 1, ![h].pc = "post"]
    /\ effects' = calls(h, [api |-> "axios.post",
                            context |-> generateAnswer(documents, handlers[h].chatId).value.context])
    /\ UNCHANGED <<documents, call, ret, everAdded, frame, storeCalls>>

\* The sleep before a retry is over: callGemini calls itself with the same
\* context and retryCount + 1, and posts the request again.
SleepResolves(h) ==
    /\ handlers[h].kind = "text"
    /\ handlers[h].pc = "sleep"
    /\ handlers' = [handlers EXCEPT ![h].retryCount = @ + 1, ![h].pc = "post"]
    /\ effects' = calls(h, [api |-> "axios.post", context |-> handlers[h].context])
    /\ UNCHANGED <<documents, call, ret, everAdded, frame, storeCalls>>

\* The processing message is deleted: sendLongMessage sends the first piece.
DeleteResolves(h) ==
    /\ handlers[h].kind = "text"
    /\ handlers[h].pc = "deleteMsg"
    /\ handlers' = [handlers EXCEPT ![h].sent = 1, ![h].pc = "chunkMsg"]
    /\ effects' = calls(h, [api |-> "sendMessage",
                            text |-> matchChunks(handlers[h].response)[1]])
    /\ UNCHANGED <<documents, call, ret, everAdded, frame, storeCalls>>

\* A piece is sent: sendLongMessage sends the next, and the handler is done
\* after the last.
ChunkResolves(h) ==
    /\ handlers[h].kind = "text"
    /\ handlers[h].pc = "chunkMsg"
    /\ LET chunks == matchChunks(handlers[h].response)
       IN  IF handlers[h].sent < Len(chunks)
           THEN /\ handlers' = [handlers EXCEPT ![h].sent = @ + 1]
                /\ effects' = calls(h, [api |-> "sendMessage",
                                        text |-> chunks[handlers[h].sent + 1]])
           ELSE /\ handlers' = [handlers EXCEPT ![h].pc = "done"]
                /\ UNCHANGED effects
    /\ UNCHANGED <<documents, call, ret, everAdded, frame, storeCalls>>

\* The last message of the handler is sent or edited.
TextReplied(h) ==
    /\ handlers[h].kind = "text"
    /\ handlers[h].pc \in {"noDocsMsg", "answerMsg", "errorMsg"}
    /\ handlers' = [handlers EXCEPT ![h].pc = "done"]
    /\ UNCHANGED <<documents, call, ret, everAdded, frame, effects, storeCalls>>

\* A call of the Telegram API by the question handler rejects: inside the
\* try block the catch block edits the processing message to the error text,
\* outside it the handler ends with the rejection.
TextTelegramRejects(h) ==
    /\ handlers[h].kind = "text"
    /\ handlers[h].pc \in {"noDocsMsg", "chatAction", "processingMsg",
                           "answerMsg", "deleteMsg", "chunkMsg", "errorMsg"}
    /\ IF handlers[h].pc \in {"answerMsg", "deleteMsg", "chunkMsg"}
       THEN /\ handlers' = [handlers EXCEPT ![h].pc = "errorMsg"]
            /\ effects' = calls(h, [api |-> "editMessageText",
                                    message |-> "processingMsg",
                                    text |-> QuestionErrorText])
       ELSE /\ handlers' = [handlers EXCEPT ![h].pc = "rejected"]
            /\ UNCHANGED effects
    /\ UNCHANGED <<documents, call, ret, everAdded, frame, storeCalls>>

\* The text messages: a question and a command.
QuestionText == <<"a", "b", "c", "?">>

CommandText == <<"/", "d", "o", "c", "s">>

\* At most MaxQuestions text messages arrive in SnapshotSpec and RetrySpec,
\* and at most MaxDeliverQuestions in DeliverSpec.
MaxQuestions == 1

MaxDeliverQuestions == 2

\* An error message of the API.
ApiMessage == <<"b", "a", "d">>

\* SnapshotSpec: one chat's store is changed while its question is answered.
SnapshotFiles == {fileNameOf(1), fileNameOf(2)}

SnapshotOutcomes ==
    {[kind |-> "response", text |-> TextY],
     [kind |-> "error", status |-> 429, message |-> <<>>],
     [kind |-> "error", status |-> 0, message |-> <<>>]}

NextSnapshot ==
    \/ \E f \in SnapshotFiles, x \in Contents : AddDocument(101, f, x)
    \/ \E f \in SnapshotFiles : DeleteDocument(101, f)
    \/ ClearDocuments(101)
    \/ /\ Len(handlers) < MaxQuestions
       /\ \E t \in {QuestionText, CommandText} : ReceiveText(101, t)
    \/ \E h \in 1..Len(handlers) : TextChatAction(h)
    \/ \E h \in 1..Len(handlers) : TextAsks(h)
    \/ \E h \in 1..Len(handlers) : \E o \in SnapshotOutcomes : PostResolves(h, o)
    \/ \E h \in 1..Len(handlers) : SleepResolves(h)
    \/ \E h \in 1..Len(handlers) : TextReplied(h)
    \/ \E h \in 1..Len(handlers) : TextTelegramRejects(h)

SnapshotSpec == Init /\ [][NextSnapshot]_vars

\* RetrySpec: the question of a user with one document, with every outcome
\* of the requests to the model.
RetryOutcomes ==
    {[kind |-> "response", text |-> TextY],
     [kind |-> "response", text |-> <<>>],
     [kind |-> "error", status |-> 429, message |-> <<>>],
     [kind |-> "error", status |-> 429, message |-> ApiMessage],
     [kind |-> "error", status |-> 503, message |-> <<>>],
     [kind |-> "error", status |-> 400, message |-> ApiMessage],
     [kind |-> "error", status |-> 500, message |-> <<>>],
     [kind |-> "error", status |-> 0, message |-> <<>>]}

NextRetry ==
    \/ /\ getDocumentCount(documents, 101) = 0
       /\ AddDocument(101, fileNameOf(1), TextY)
    \/ /\ Len(handlers) < MaxQuestions
       /\ ReceiveText(101, QuestionText)
    \/ \E h \in 1..Len(handlers) : TextChatAction(h)
    \/ \E h \in 1..Len(handlers) : TextAsks(h)
    \/ \E h \in 1..Len(handlers) : \E o \in RetryOutcomes : PostResolves(h, o)
    \/ \E h \in 1..Len(handlers) : SleepResolves(h)
    \/ \E h \in 1..Len(handlers) : TextReplied(h)
    \/ \E h \in 1..Len(handlers) : TextTelegramRejects(h)

RetrySpec == Init /\ [][NextRetry]_vars

\* DeliverSpec: the questions of a user with one or two documents, with
\* answers of the model that make the response 4000 characters long, 4001,
\* and 8001 (with one document), and a short one.
DeliverOutcomes ==
    {[kind |-> "response", text |-> digitText(n)] :
        n \in {3, MessageLimit - 20, MessageLimit - 19, 2 * MessageLimit - 19}}
    \cup {[kind |-> "error", status |-> 0, message |-> <<>>]}

NextDeliver ==
    \/ /\ getDocumentCount(documents, 101) < 2
       /\ AddDocument(101, fileNameOf(getDocumentCount(documents, 101) + 1), TextY)
    \/ /\ Len(handlers) < MaxDeliverQuestions
       /\ ReceiveText(101, QuestionText)
    \/ \E h \in 1..Len(handlers) : TextChatAction(h)
    \/ \E h \in 1..Len(handlers) : TextAsks(h)
    \/ \E h \in 1..Len(handlers) : \E o \in DeliverOutcomes : PostResolves(h, o)
    \/ \E h \in 1..Len(handlers) : DeleteResolves(h)
    \/ \E h \in 1..Len(handlers) : ChunkResolves(h)
    \/ \E h \in 1..Len(handlers) : TextReplied(h)
    \/ \E h \in 1..Len(handlers) : TextTelegramRejects(h)

DeliverSpec == Init /\ [][NextDeliver]_vars

(***************************************************************************)
(* processPDF: downloadTelegramFile, extractTextFromPDF, extractWithGemini *)
(***************************************************************************)

\* MAX_RETRIES of downloadTelegramFile and the unit of its delays.
DownloadMaxRetries == 3

DownloadDelay == 2000

\* MAX_RETRIES of extractWithGemini and the unit of its delays.
ExtractMaxRetries == 2

ExtractDelay == 5000

\* The trimmed length above which the text of pdf-parse is returned.
MinimalTextLength == 100

\* The message of the error thrown for a getFile response that is not ok.
NoFileInfoError ==
    [code |-> "undefined",
     message |-> <<"C", "o", "u", "l", "d", " ", "n", "o", "t", " ", "g", "e", "t",
                   " ", "f", "i", "l", "e", " ", "i", "n", "f", "o", " ", "f", "r",
                   "o", "m", " ", "T", "e", "l", "e", "g", "r", "a", "m">>]

\* The error thrown for a response of the model without text; it has no
\* response.
NoTextError == [kind |-> "error", status |-> 0]

Aborted == <<"a", "b", "o", "r", "t", "e", "d">>

\* downloadTelegramFile that retries after every error.
afterDownloadErrorRetriesAll(retryCount, error) ==
    IF retryCount < DownloadMaxRetries
    THEN [do |-> "retry", delay |-> (retryCount + 1) * DownloadDelay]
    ELSE [do |-> "throw"]

\* What the catch block of downloadTelegramFile does with an error: sleep
\* and call itself with retryCount + 1, or rethrow.
afterDownloadError(retryCount, error) ==
    IF /\ retryCount < DownloadMaxRetries
       /\ \/ error.code = "ECONNRESET"
          \/ error.code = "ETIMEDOUT"
          \/ includes(error.message, Aborted)
    THEN [do |-> "retry", delay |-> (retryCount + 1) * DownloadDelay]
    ELSE [do |-> "throw"]

\* What the catch block of extractWithGemini does with an error.
afterExtractError(retryCount, error) ==
    IF error.status \in {429, 503} /\ retryCount < ExtractMaxRetries
    THEN [do |-> "retry", delay |-> (retryCount + 1) * ExtractDelay]
    ELSE [do |-> "throw"]

\* pdfData.text && pdfData.text.trim().length > 100
enoughText(text) == text # <<>> /\ Len(trim(text)) > MinimalTextLength

\* processPDF is called: downloadTelegramFile runs to its first await, the
\* getFile request.
CallProcessPDF(fileId) ==
    /\ handlers' = Append(handlers,
          [kind |-> "processPDF", fileId |-> fileId, pc |-> "getFile",
           retryCount |-> 0, errors |-> <<>>,
           inTry |-> FALSE, extractRetryCount |-> 0, fallbacks |-> 0,
           extractErrors |-> <<>>, result |-> [kind |-> "none"]])
    /\ effects' = Append(effects, <<[api |-> "axios.get", url |-> "getFile"]>>)
    /\ UNCHANGED <<documents, call, ret, everAdded, frame, storeCalls>>

\* An attempt of downloadTelegramFile of handler h fails with an error.
DownloadFails(h, error) ==
    LET next == afterDownloadError(handlers[h].retryCount, error)
        rec == [handlers[h] EXCEPT !.errors = Append(@, error)]
    IN  IF next.do = "retry"
        THEN /\ handlers' = [handlers EXCEPT ![h] = [rec EXCEPT !.pc = "downloadSleep"]]
             /\ effects' = calls(h, [api |-> "sleep", ms |-> next.delay])
        ELSE /\ handlers' = [handlers EXCEPT ![h] =
                   [rec EXCEPT !.pc = "rejected",
                               !.result = [kind |-> "throw", error |-> error]]]
             /\ UNCHANGED effects

\* The getFile request settles: with an ok response the file is requested,
\* with another response the error of line 25 is thrown in the try block.
GetFileResolves(h, outcome) ==
    /\ handlers[h].kind = "processPDF"
    /\ handlers[h].pc = "getFile"
    /\ IF outcome.kind = "response" /\ outcome.ok
       THEN /\ handlers' = [handlers EXCEPT ![h].pc = "download"]
            /\ effects' = calls(h, [api |-> "axios.get", url |-> "download"])
       ELSE IF outcome.kind = "response"
       THEN DownloadFails(h, NoFileInfoError)
       ELSE DownloadFails(h, outcome.error)
    /\ UNCHANGED <<documents, call, ret, everAdded, frame, storeCalls>>

\* The request of the file settles: with a response downloadTelegramFile
\* returns, and extractTextFromPDF runs to the await of pdfParse.
DownloadResolves(h, outcome) ==
    /\ handlers[h].kind = "processPDF"
    /\ handlers[h].pc = "download"
    /\ IF outcome.kind = "response"
       THEN /\ handlers' = [handlers EXCEPT ![h].pc = "pdfParse"]
            /\ effects' = calls(h, [api |-> "pdfParse"])
       ELSE DownloadFails(h, outcome.error)
    /\ UNCHANGED <<documents, call, ret, everAdded, frame, storeCalls>>

\* The sleep of downloadTelegramFile is over: it calls itself with
\* retryCount + 1.
DownloadSleepResolves(h) ==
    /\ handlers[h].kind = "processPDF"
    /\ handlers[h].pc = "downloadSleep"
    /\ handlers' = [handlers EXCEPT ![h].retryCount = @ + 1, ![h].pc = "getFile"]
    /\ effects' = calls(h, [api |-> "axios.get", url |-> "getFile"])
    /\ UNCHANGED <<documents, call, ret, everAdded, frame, storeCalls>>

\* extractTextFromPDF calls extractWithGemini, in its try block (line 77)
\* or in its catch block (line 83): the request is posted.
StartExtractWithGemini(h, inTry) ==
    /\ handlers' = [handlers EXCEPT ![h].pc = "extractPost",
                                    ![h].inTry = inTry,
                                    ![h].extractRetryCount = 0,
                                    ![h].fallbacks = @ + 1]
    /\ effects' = calls(h, [api |-> "axios.post", data |-> "pdf"])

\* pdfParse settles: enough text is returned; with less extractWithGemini is
\* called in the try block, after a throw in the catch block.
PdfParseResolves(h, outcome) ==
    /\ handlers[h].kind = "processPDF"
    /\ handlers[h].pc = "pdfParse"
    /\ IF outcome.kind = "text" /\ enoughText(outcome.text)
       THEN /\ handlers' = [handlers EXCEPT ![h].pc = "resolved",
                  ![h].result = [kind |-> "return", content |-> outcome.text,
                                 method |-> "pdf-parse"]]
            /\ UNCHANGED effects
       ELSE StartExtractWithGemini(h, outcome.kind = "text")
    /\ UNCHANGED <<documents, call, ret, everAdded, frame, storeCalls>>

\* The request of extractWithGemini settles.  A response with text is
\* returned; one without throws in the try block of extractWithGemini.  An
\* error is retried after a sleep or rethrown; rethrown to the try block of
\* extractTextFromPDF it is caught there, and extractWithGemini is called
\* again, in the catch block.
ExtractPostResolves(h, outcome) ==
    /\ handlers[h].kind = "processPDF"
    /\ handlers[h].pc = "extractPost"
    /\ IF outcome.kind = "response" /\ outcome.text # <<>>
       THEN /\ handlers' = [handlers EXCEPT ![h].pc = "resolved",
                  ![h].result = [kind |-> "return", content |-> outcome.text,
                                 method |-> "gemini"]]
            /\ UNCHANGED effects
       ELSE LET error == IF outcome.kind = "response" THEN NoTextError ELSE outcome
                next == afterExtractError(handlers[h].extractRetryCount, error)
                rec == [handlers[h] EXCEPT !.extractErrors = Append(@, error)]
            IN  IF next.do = "retry"
                THEN /\ handlers' = [handlers EXCEPT ![h] =
                           [rec EXCEPT !.pc = "extractSleep"]]
                     /\ effects' = calls(h, [api |-> "sleep", ms |-> next.delay])
                ELSE IF handlers[h].inTry
                THEN /\ handlers' = [handlers EXCEPT ![h] =
                           [rec EXCEPT !.pc = "extractPost", !.inTry = FALSE,
                                       !.extractRetryCount = 0,
                                       !.fallbacks = @ + 1]]
                     /\ effects' = calls(h, [api |-> "axios.post", data |-> "pdf"])
                ELSE /\ handlers' = [handlers EXCEPT ![h] =
                           [rec EXCEPT !.pc = "rejected",
                                       !.result = [kind |-> "throw", error |-> error]]]
                     /\ UNCHANGED effects
    /\ UNCHANGED <<documents, call, ret, everAdded, frame, storeCalls>>

\* The sleep of extractWithGemini is over: it calls itself with
\* retryCount + 1.
ExtractSleepResolves(h) ==
    /\ handlers[h].kind = "processPDF"
    /\ handlers[h].pc = "extractSleep"
    /\ handlers' = [handlers EXCEPT ![h].extractRetryCount = @ + 1,
                                    ![h].pc = "extractPost"]
    /\ effects' = calls(h, [api |-> "axios.post", data |-> "pdf"])
    /\ UNCHANGED <<documents, call, ret, everAdded, frame, storeCalls>>

\* At most MaxPdfCalls calls of processPDF.
MaxPdfCalls == 1

\* The errors of axios.get: connection reset, timed out at the socket, the
\* request aborted, the timeout of axios and a status that is not 2xx.
DownloadErrors ==
    {[code |-> "ECONNRESET", message |-> <<"r", "e", "s", "e", "t">>],
     [code |-> "ETIMEDOUT", message |-> <<"t", "i", "m", "e", "d">>],
     [code |-> "ECONNABORTED",
      message |-> <<"R", "e", "q", "u", "e", "s", "t", " ">> \o Aborted],
     [code |-> "ECONNABORTED", message |-> <<"t", "i", "m", "e", "o", "u", "t">>],
     [code |-> "ERR_BAD_REQUEST", message |-> <<"4", "0", "4">>]}

GetFileOutcomes ==
    {[kind |-> "response", ok |-> TRUE], [kind |-> "response", ok |-> FALSE]}
    \cup {[kind |-> "error", error |-> e] : e \in DownloadErrors}

DownloadOutcomes ==
    {[kind |-> "response"]} \cup {[kind |-> "error", error |-> e] : e \in DownloadErrors}

\* The results of pdfParse: texts of 101 and of 100 characters, the second
\* also between blanks, no text, and a throw.
PdfParseOutcomes ==
    {[kind |-> "text", text |-> digitText(MinimalTextLength + 1)],
     [kind |-> "text", text |-> digitText(MinimalTextLength)],
     [kind |-> "text", text |-> <<" ", "\n">> \o digitText(MinimalTextLength) \o <<" ">>],
     [kind |-> "text", text |-> <<>>],
     [kind |-> "throw"]}

ExtractOutcomes ==
    {[kind |-> "response", text |-> TextY],
     [kind |-> "response", text |-> <<>>],
     [kind |-> "error", status |-> 429],
     [kind |-> "error", status |-> 503],
     [kind |-> "error", status |-> 500],
     [kind |-> "error", status |-> 0]}

NextPdf ==
    \/ /\ Len(handlers) < MaxPdfCalls
       /\ \E f \in {"fileX", "fileY"} : CallProcessPDF(f)
    \/ \E h \in 1..Len(handlers) : \E o \in GetFileOutcomes : GetFileResolves(h, o)
    \/ \E h \in 1..Len(handlers) : \E o \in DownloadOutcomes : DownloadResolves(h, o)
    \/ \E h \in 1..Len(handlers) : DownloadSleepResolves(h)
    \/ \E h \in 1..Len(handlers) : \E o \in PdfParseOutcomes : PdfParseResolves(h, o)
    \/ \E h \in 1..Len(handlers) : \E o \in ExtractOutcomes : ExtractPostResolves(h, o)
    \/ \E h \in 1..Len(handlers) : ExtractSleepResolves(h)

PdfSpec == Init /\ [][NextPdf]_vars

(***************************************************************************)
(* chunkText, step by step                                                 *)
(***************************************************************************)

\* The arguments of the calls of chunkText: every text of up to
\* MaxChunkTextLen characters over ChunkAlphabet, with the chunk sizes and
\* the overlaps below.
MaxChunkTextLen == 6

ChunkTexts == UNION {[1..n -> ChunkAlphabet] : n \in 0..MaxChunkTextLen}

ChunkSizes == {3, 5}

Overlaps == {0, 10, 20}

\* A call of chunkText about to be made on a new store.
ChunkInit ==
    /\ documents = <<>>
    /\ call = [op |-> "constructor"]
    /\ ret = Return("DocumentStore")
    /\ everAdded = {}
    /\ frame \in {[pc |-> "call", text |-> t, chunkSize |-> n, overlap |-> o] :
                     t \in ChunkTexts, n \in ChunkSizes, o \in Overlaps}
    /\ NoHandlers

\* Lines 149-152: the sentences are split off and the locals initialised.
\* pushed, ownFrom and first record history: pushed holds, for every chunk
\* pushed, the buffer it was trimmed from, the index in that buffer where
\* the sentences appended to it begin (behind the overlap words it was
\* seeded with) and the number of the first of these sentences; ownFrom and
\* first are that index and that number for the current buffer.
ChunkEnter ==
    /\ frame.pc = "call"
    /\ frame' = [pc |-> "loop", text |-> frame.text, chunkSize |-> frame.chunkSize,
                 overlap |-> frame.overlap,
                 sentences |-> splitSentences(frame.text), k |-> 1,
                 chunks |-> <<>>, currentChunk |-> <<>>,
                 pushed |-> <<>>, ownFrom |-> 1, first |-> 1]
    /\ UNCHANGED <<documents, call, ret, everAdded, botVars>>

\* Lines 155-160: the sentence closes the current chunk and starts the next.
ChunkClose ==
    /\ frame.pc = "loop"
    /\ frame.k <= Len(frame.sentences)
    /\ closesChunk(frame.currentChunk, frame.sentences[frame.k], frame.chunkSize)
    /\ LET st == chunkStep([chunks |-> frame.chunks, currentChunk |-> frame.currentChunk],
                           frame.sentences[frame.k], frame.chunkSize, frame.overlap)
       IN  frame' = [frame EXCEPT
                        !.chunks = st.chunks,
                        !.currentChunk = st.currentChunk,
                        !.k = @ + 1,
                        !.pushed = Append(@, [buffer |-> frame.currentChunk,
                                              ownFrom |-> frame.ownFrom,
                                              first |-> frame.first]),
                        !.ownFrom = Len(st.currentChunk) - Len(frame.sentences[frame.k]) + 1,
                        !.first = frame.k]
    /\ UNCHANGED <<documents, call, ret, everAdded, botVars>>

\* Lines 161-163: the sentence is appended to the current chunk.
ChunkAppend ==
    /\ frame.pc = "loop"
    /\ frame.k <= Len(frame.sentences)
    /\ ~closesChunk(frame.currentChunk, frame.sentences[frame.k], frame.chunkSize)
    /\ LET st == chunkStep([chunks |-> frame.chunks, currentChunk |-> frame.currentChunk],
                           frame.sentences[frame.k], frame.chunkSize, frame.overlap)
       IN  frame' = [frame EXCEPT
                        !.chunks = st.chunks,
                        !.currentChunk = st.currentChunk,
                        !.k = @ + 1]
    /\ UNCHANGED <<documents, call, ret, everAdded, botVars>>

\* Lines 166-170: the last chunk is pushed and the chunks are returned.
ChunkReturn ==
    /\ frame.pc = "loop"
    /\ frame.k > Len(frame.sentences)
    /\ frame' = [frame EXCEPT
                     !.pc = "done",
                     !.pushed = IF trim(frame.currentChunk) # <<>>
                                THEN Append(@, [buffer |-> frame.currentChunk,
                                                ownFrom |-> frame.ownFrom,
                                                first |-> frame.first])
                                ELSE @]
    /\ ret' = Return(chunkFinish([chunks |-> frame.chunks,
                                  currentChunk |-> frame.currentChunk], frame.text))
    /\ call' = [op |-> "chunkText", text |-> frame.text,
                chunkSize |-> frame.chunkSize, overlap |-> frame.overlap]
    /\ UNCHANGED <<documents, everAdded, botVars>>

NextChunk == ChunkEnter \/ ChunkClose \/ ChunkAppend \/ ChunkReturn

ChunkSpec == ChunkInit /\ [][NextChunk]_vars

\* The contents of UntypedSpec: strings and values that are not strings.
UntypedFiles == {fileNameOf(1), fileNameOf(2)}

UntypedContents == {TextX, TextY, Undefined, NumberValue}

\* One user's calls, addDocument also with a content that is not a string.
NextUntyped ==
    \/ \E f \in UntypedFiles, x \in UntypedContents : AddDocument(101, f, x)
    \/ \E f \in UntypedFiles : DeleteDocument(101, f)
    \/ ClearDocuments(101)
    \/ GetDocumentCount(101)
    \/ GetDocumentNames(101)

UntypedSpec == Init /\ [][NextUntyped]_vars

(***************************************************************************)
(* The claims                                                              *)
(***************************************************************************)

\* C1: after any sequence of addDocument, deleteDocument and clearDocuments
\* calls, in any interleaving of the users' calls, no user's collection
\* holds two documents with the same fileName.
UniqueFileNames ==
    \A c \in DOMAIN documents :
        \A i, j \in 1..Len(documents[c]) :
            documents[c][i].fileName = documents[c][j].fileName => i = j

\* A name that was already stored has been added again, to a collection of
\* NumFiles documents, while the other user holds a document too.
UniqueFileNamesWitness ==
    /\ call.op = "addDocument"
    /\ call.chatId = 101
    /\ Len(documents[101]) = NumFiles
    /\ documents[101][1].fileName = call.fileName
    /\ getDocumentCount(documents, 202) = 1

\* C2: addDocument(uid, f, Y) replaces the document named f at its index
\* (content becomes Y) and leaves the count and every other document of the
\* collection, and their order, unchanged; with no document named f it
\* appends the new document and the count grows by exactly 1.  The returned
\* totalDocuments is getDocumentCount(uid) after the call.
AddDocumentContract ==
    [][call'.op = "addDocument" =>
        LET before == getDocuments(documents, call'.chatId)
            after == getDocuments(documents', call'.chatId)
            at == {i \in 1..Len(before) : before[i].fileName = call'.fileName}
        IN  /\ IF at # {}
               THEN /\ Len(after) = Len(before)
                    /\ \A i \in 1..Len(before) :
                          IF i \in at
                          THEN /\ after[i].fileName = call'.fileName
                               /\ after[i].content = call'.content
                          ELSE after[i] = before[i]
               ELSE /\ Len(after) = Len(before) + 1
                    /\ SubSeq(after, 1, Len(before)) = before
                    /\ after[Len(after)].fileName = call'.fileName
                    /\ after[Len(after)].content = call'.content
            /\ ret'.kind = "return"
            /\ ret'.value.totalDocuments = getDocumentCount(documents', call'.chatId)
    ]_vars

\* f2.pdf, the second of three documents, has been added again with the
\* content TextY while its neighbours hold TextX.
AddDocumentContractWitness ==
    /\ call.op = "addDocument"
    /\ call.chatId = 101
    /\ call.fileName = fileNameOf(2)
    /\ call.content = TextY
    /\ ret.value.totalDocuments = 3
    /\ getDocumentNames(documents, 101) = <<fileNameOf(1), fileNameOf(2), fileNameOf(3)>>
    /\ documents[101][1].content = TextX
    /\ documents[101][2].content = TextY
    /\ documents[101][3].content = TextX

\* C3: for two distinct user ids A and B, no operation called with A changes
\* B's collection or the result of any read operation called with B.  (A
\* call that leaves the Map as it was changes no collection and no result.)
UsersIsolated ==
    [][documents' # documents =>
       \A b \in ChatIds \ {call'.chatId} :
          /\ (b \in DOMAIN documents') = (b \in DOMAIN documents)
          /\ getDocuments(documents', b) = getDocuments(documents, b)
          /\ getDocumentCount(documents', b) = getDocumentCount(documents, b)
          /\ getDocumentNames(documents', b) = getDocumentNames(documents, b)
          /\ getAllContent(documents', b) = getAllContent(documents, b)
          /\ generateAnswer(documents', b) = generateAnswer(documents, b)
          /\ \A q \in Queries :
                searchDocuments(documents', b, q) = searchDocuments(documents, b, q)
    ]_vars

\* User 101's collection has been cleared while user 202 holds a document.
UsersIsolatedWitness ==
    /\ call.op = "clearDocuments"
    /\ call.chatId = 101
    /\ 101 \notin DOMAIN documents
    /\ 101 \in everAdded
    /\ getDocumentCount(documents, 202) = 1

\* C4: in every reachable state each stored document's chunks are
\* chunkText's output for the document's current content with the defaults
\* 3000 and 500; after an overwrite no chunk of the replaced content remains.
ChunksDerivedFromContent ==
    \A c \in DOMAIN documents :
        \A i \in 1..Len(documents[c]) :
            documents[c][i].chunks
                = chunkText(documents[c][i].content, DefaultChunkSize, DefaultOverlap)

\* f1.pdf, the first of two documents, has been added again, with the text
\* of two chunks.
ChunksDerivedFromContentWitness ==
    /\ call.op = "addDocument"
    /\ call.fileName = fileNameOf(1)
    /\ call.content = LongText
    /\ getDocumentNames(documents, 101) = <<fileNameOf(1), fileNameOf(2)>>
    /\ ret.value.chunksCount = 2
    /\ Len(documents[101][1].chunks) = 2
    /\ Len(documents[101][1].chunks[2]) > Len(LongSentence)

\* C5: deleteDocument(uid, f) returns true exactly when uid's collection
\* held a document named f before the call; then exactly that document is
\* removed and the remaining documents keep their relative order.  When it
\* returns false the store is unchanged.
DeleteDocumentContract ==
    [][call'.op = "deleteDocument" =>
        LET before == getDocuments(documents, call'.chatId)
            after == getDocuments(documents', call'.chatId)
            at == {i \in 1..Len(before) : before[i].fileName = call'.fileName}
        IN  /\ ret'.kind = "return"
            /\ ret'.value = (at # {})
            /\ IF ret'.value
               THEN /\ Cardinality(at) = 1
                    /\ after = SelectSeq(before, LAMBDA d : d.fileName # call'.fileName)
                    /\ Len(after) = Len(before) - 1
                    /\ \A c \in DOMAIN documents' \ {call'.chatId} :
                          c \in DOMAIN documents /\ documents'[c] = documents[c]
                    /\ DOMAIN documents' = DOMAIN documents
               ELSE documents' = documents
    ]_vars

\* f1.pdf has been deleted and f2.pdf and f3.pdf remain, in this order.
DeleteDocumentContractWitness ==
    /\ call.op = "deleteDocument"
    /\ call.chatId = 101
    /\ call.fileName = fileNameOf(1)
    /\ ret = Return(TRUE)
    /\ getDocumentNames(documents, 101) = <<fileNameOf(2), fileNameOf(3)>>

\* C6: clearDocuments(uid) returns true in every state, also for an unknown
\* uid; right after it getDocumentCount(uid) is 0 and getDocumentNames,
\* getAllContent and searchDocuments return empty sequences; an addDocument
\* (uid, f, X) that follows (whatever the other users called in between)
\* yields a collection of exactly that one document, its chunks derived
\* from X alone.
ClearDocumentsContract ==
    /\ [](call.op = "clearDocuments" =>
            /\ ret = Return(TRUE)
            /\ getDocumentCount(documents, call.chatId) = 0
            /\ getDocumentNames(documents, call.chatId) = <<>>
            /\ getAllContent(documents, call.chatId) = <<>>
            /\ \A q \in Queries :
                  searchDocuments(documents, call.chatId, q) = Return(<<>>))
    /\ [][(call'.op = "addDocument" /\ call'.chatId \notin DOMAIN documents) =>
            getDocuments(documents', call'.chatId)
                = <<[fileName |-> call'.fileName,
                     content |-> call'.content,
                     chunks |-> chunkText(call'.content,
                                          DefaultChunkSize, DefaultOverlap)]>>
       ]_vars

\* clearDocuments has been called for user 202, who never added a document,
\* while user 101 holds NumFiles documents.
ClearDocumentsContractWitness ==
    /\ call.op = "clearDocuments"
    /\ call.chatId = 202
    /\ 202 \notin everAdded
    /\ getDocumentCount(documents, 101) = NumFiles

\* C7: for a user id that never had a document added, getDocuments,
\* getDocumentNames, getAllContent and searchDocuments return an empty
\* sequence, getDocumentCount returns 0 and deleteDocument returns false;
\* none of the calls fails and none changes the store: no collection is
\* created by a read.
UnknownUserContract ==
    /\ [](\A c \in ChatIds \ everAdded : c \notin DOMAIN documents)
    /\ []((call.op # "constructor" /\ call.chatId \notin everAdded) =>
            CASE call.op \in {"getDocuments", "getDocumentNames",
                              "getAllContent", "searchDocuments"} ->
                     ret = Return(<<>>)
              [] call.op = "getDocumentCount" -> ret = Return(0)
              [] call.op = "deleteDocument" -> ret = Return(FALSE)
              [] OTHER -> TRUE)
    /\ [][(call'.chatId \notin everAdded'
             /\ call'.op \in {"getDocuments", "getDocumentNames", "getAllContent",
                              "searchDocuments", "getDocumentCount",
                              "deleteDocument"}) =>
            documents' = documents
       ]_vars

\* searchDocuments has been called with the query "(ab" for user 202, who
\* never added a document, while user 101 holds documents.
UnknownUserContractWitness ==
    /\ call.op = "searchDocuments"
    /\ call.chatId = 202
    /\ call.query = <<"(", "a", "b">>
    /\ 202 \notin everAdded
    /\ getDocumentCount(documents, 101) > 0

RECURSIVE literalScan(_, _, _)
literalScan(text, word, pos) ==
    IF pos + Len(word) - 1 > Len(text) THEN 0
    ELSE IF SubSeq(text, pos, pos + Len(word) - 1) = word
         THEN 1 + literalScan(text, word, pos + Len(word))
         ELSE literalScan(text, word, pos + 1)

RECURSIVE literalRelevance(_, _, _)
literalRelevance(text, queryWords, k) ==
    IF k > Len(queryWords)
    THEN IF includes(text, join(queryWords, <<" ">>)) THEN 2 * Len(queryWords) ELSE 0
    ELSE literalScan(text, toLowerCase(queryWords[k]), 1)
             + literalRelevance(text, queryWords, k + 1)

\* C9: for every chunk and every list of query words, made of any
\* characters, the relevance score is the sum over the query words of the
\* number of non-overlapping case-insensitive occurrences of the word as
\* literal text in the chunk, plus 2 * (number of query words) if the
\* lower-cased chunk contains the words joined by single spaces.  Stated of
\* every chunk the search called last has scored.
RelevanceCountsLiteralWords ==
    call.op = "searchDocuments" =>
        \A d \in 1..getDocumentCount(documents, call.chatId) :
            \A c \in 1..Len(documents[call.chatId][d].chunks) :
                LET text == toLowerCase(documents[call.chatId][d].chunks[c])
                    queryWords == queryWordsOf(call.query)
                IN  calculateRelevance(text, queryWords)
                        = Return(literalRelevance(text, queryWords, 1))

\* C10: searchDocuments is total: for every string query, also one whose
\* words hold characters such as '(', and every store state, it returns a
\* sequence of results and never raises an exception.
SearchDocumentsTotal ==
    call.op = "searchDocuments" => ret.kind = "return"

\* C11: addDocument called with a content that is not a string fails, and
\* the failed call leaves the store exactly as it was before the call: no
\* document added or replaced and no collection created for the user.
AddDocumentRejectsNonString ==
    [][(call'.op = "addDocument" /\ typeOf(call'.content) # "string")
          => (ret'.kind = "throw" /\ documents' = documents)]_vars

\* C13: every chunk stored for a document is a non-empty, contiguous
\* substring of that document's content, for every content (empty content,
\* whitespace-only content and content whose sentences are separated by
\* newlines or by more than one space included).
ChunksAreSubstrings ==
    \A c \in DOMAIN documents :
        \A i \in 1..Len(documents[c]) :
            \A j \in 1..Len(documents[c][i].chunks) :
                /\ documents[c][i].chunks[j] # <<>>
                /\ includes(documents[c][i].content, documents[c][i].chunks[j])

\* Every run of whitespace behind a '.', '!' or '?' of the content is one
\* space.
singleSpaceBreaks(content) ==
    \A i \in 2..Len(content) :
        (content[i] \in Whitespace /\ content[i - 1] \in SentenceEnd)
            => /\ content[i] = " "
               /\ (i < Len(content) => content[i + 1] \notin Whitespace)

\* C13, amended: every chunk stored for a document is non-empty unless the
\* content is empty, and is a contiguous substring of the content when
\* every run of whitespace behind a '.', '!' or '?' of the content is a
\* single space.
ChunksAreSubstringsOfSingleSpaced ==
    \A c \in DOMAIN documents :
        \A i \in 1..Len(documents[c]) :
            \A j \in 1..Len(documents[c][i].chunks) :
                /\ documents[c][i].content # <<>> => documents[c][i].chunks[j] # <<>>
                /\ singleSpaceBreaks(documents[c][i].content)
                      => includes(documents[c][i].content, documents[c][i].chunks[j])

\* A document of two chunks is stored, the second seeded with the overlap
\* words of the first, and both are substrings of its content.
ChunksAreSubstringsWitness ==
    /\ 101 \in DOMAIN documents
    /\ Len(documents[101]) = 1
    /\ documents[101][1].content = LongText
    /\ singleSpaceBreaks(LongText)
    /\ Len(documents[101][1].chunks) = 2
    /\ includes(LongText, documents[101][1].chunks[2])

\* The overlap words (with the space behind them) that the buffer of the
\* i-th chunk pushed was seeded with; empty for the first chunk.
overlapPrefix(i) == SubSeq(frame.pushed[i].buffer, 1, frame.pushed[i].ownFrom - 1)

\* The sentences appended to the buffer of the i-th chunk pushed.
ownSentences(i) ==
    SubSeq(frame.sentences,
           frame.pushed[i].first,
           IF i < Len(frame.pushed) THEN frame.pushed[i + 1].first - 1
                                    ELSE Len(frame.sentences))

\* C14: chunk coverage: every sentence of the text (as the split behind
\* '.', '!' or '?' followed by whitespace produces it) appears whole in at
\* least one chunk; and every chunk is the overlap prefix it was seeded with
\* followed by sentences of the text, the sentences of the chunks, taken in
\* order, being all sentences of the text in their order, none omitted.
ChunkCoverage ==
    frame.pc = "done" =>
        /\ \A k \in 1..Len(frame.sentences) :
               \E j \in 1..Len(ret.value) : includes(ret.value[j], frame.sentences[k])
        /\ \/ frame.pushed = <<>> /\ ret.value = <<frame.text>>
           \/ /\ Len(ret.value) = Len(frame.pushed)
              /\ frame.pushed[1].first = 1
              /\ \A i \in 1..Len(ret.value) :
                    /\ ownSentences(i) # <<>>
                    /\ ret.value[i] = overlapPrefix(i) \o join(ownSentences(i), <<" ">>)

\* C14, amended: every sentence, without the whitespace at its ends,
\* appears whole in at least one chunk; and every chunk is, up to the
\* whitespace trimmed off its ends, the overlap prefix it was seeded with
\* followed by sentences of the text joined by single spaces, the sentences
\* of the chunks, taken in order, being all sentences of the text in their
\* order, none omitted.
ChunkCoverageTrimmed ==
    frame.pc = "done" =>
        /\ \A k \in 1..Len(frame.sentences) :
               \E j \in 1..Len(ret.value) : includes(ret.value[j], trim(frame.sentences[k]))
        /\ \/ frame.pushed = <<>> /\ ret.value = <<frame.text>>
           \/ /\ Len(ret.value) = Len(frame.pushed)
              /\ frame.pushed[1].first = 1
              /\ \A i \in 1..Len(ret.value) :
                    /\ ownSentences(i) # <<>>
                    /\ ret.value[i] = trim(overlapPrefix(i) \o join(ownSentences(i), <<" ">>))

\* chunkText has returned two chunks for the text " a. a" of two sentences
\* that begins with whitespace, the second chunk seeded with an overlap.
ChunkCoverageWitness ==
    /\ frame.pc = "done"
    /\ frame.text = <<" ", "a", ".", " ", "a">>
    /\ frame.chunkSize = 3
    /\ frame.overlap = 10
    /\ overlapPrefix(2) = <<"a", ".", " ">>
    /\ ret.value = << <<"a", ".">>, <<"a", ".", " ", "a">> >>

\* The last n elements of words, all of them if there are fewer.
lastWords(words, n) == SubSeq(words, Len(words) - MinOf(n, Len(words)) + 1, Len(words))

\* C15: overlap correctness: when floor(overlap / 10) >= 1, for any two
\* adjacent chunks of one text the last floor(overlap / 10) space-separated
\* words of the earlier chunk (all of its words if it has fewer), joined by
\* single spaces, are the head of the later chunk.
OverlapAtHeadOfNextChunk ==
    (frame.pc = "done" /\ frame.overlap \div 10 >= 1) =>
        \A i \in 1..(Len(ret.value) - 1) :
            startsWith(ret.value[i + 1],
                       join(lastWords(splitSpace(ret.value[i]), frame.overlap \div 10),
                            <<" ">>))

\* The numbers of the chunks pushed to whose buffer sentence k was appended.
holders(k) ==
    {i \in 1..Len(frame.pushed) :
        /\ frame.pushed[i].first <= k
        /\ k <= (IF i < Len(frame.pushed) THEN frame.pushed[i + 1].first - 1
                                           ELSE Len(frame.sentences))}

\* C16: a sentence is never split across chunks: every sentence lies wholly
\* inside a chunk, and a sentence longer than chunkSize is a chunk of its
\* own: the chunk that holds it is that sentence and nothing else.
SentenceNeverSplit ==
    frame.pc = "done" =>
        \A k \in 1..Len(frame.sentences) :
            /\ \E j \in 1..Len(ret.value) : includes(ret.value[j], frame.sentences[k])
            /\ Len(frame.sentences[k]) > frame.chunkSize
                  => \A i \in holders(k) : ret.value[i] = frame.sentences[k]

\* C16, amended: every sentence, without the whitespace at its ends, lies
\* wholly inside a chunk, and a sentence longer than chunkSize is the only
\* sentence appended to the chunk that holds it: that chunk is, up to the
\* whitespace trimmed off its ends, the overlap prefix it was seeded with
\* followed by that sentence.
SentenceNeverSplitBehindOverlap ==
    frame.pc = "done" =>
        \A k \in 1..Len(frame.sentences) :
            /\ \E j \in 1..Len(ret.value) : includes(ret.value[j], trim(frame.sentences[k]))
            /\ Len(frame.sentences[k]) > frame.chunkSize
                  => \A i \in holders(k) :
                        /\ ownSentences(i) = <<frame.sentences[k]>>
                        /\ ret.value[i] = trim(overlapPrefix(i) \o frame.sentences[k])

\* chunkText has returned for the text ". aaaa", whose second sentence is
\* longer than the chunk size 3: the chunk that holds it is ". aaaa".
SentenceNeverSplitWitness ==
    /\ frame.pc = "done"
    /\ frame.text = <<".", " ", "a", "a", "a", "a">>
    /\ frame.chunkSize = 3
    /\ frame.overlap = 10
    /\ holders(2) = {2}
    /\ ret.value = << <<".">>, <<".", " ", "a", "a", "a", "a">> >>

\* C17: chunks are size-bounded: for a text in which no sentence is longer
\* than chunkSize, every chunk returned has length at most chunkSize (the
\* overlap a chunk is seeded with never pushes it over the bound).
ChunksSizeBounded ==
    (/\ frame.pc = "done"
     /\ \A k \in 1..Len(frame.sentences) : Len(frame.sentences[k]) <= frame.chunkSize)
        => \A j \in 1..Len(ret.value) : Len(ret.value[j]) <= frame.chunkSize

\* C18: after a chunk is closed the new buffer is exactly the last
\* floor(overlap / 10) words of the closed buffer, joined by single spaces,
\* followed by a space and the new sentence, for every overlap >= 0: for an
\* overlap of 0..9 the count is 0 and no word of the closed buffer is
\* carried over.
SeedIsLastOverlapWords ==
    [][(/\ frame.pc = "loop"
        /\ frame'.pc = "loop"
        /\ Len(frame'.chunks) = Len(frame.chunks) + 1)
          => frame'.currentChunk =
                 join(lastWords(splitSpace(frame.currentChunk), frame.overlap \div 10),
                      <<" ">>)
                     \o <<" ">> \o frame.sentences[frame.k]]_vars

\* The header that precedes a document's body in the context.
headerOf(fileName) ==
    <<"\n", "\n">> \o Rule \o DocumentLabel \o fileName \o <<"\n">> \o Rule \o <<"\n">>

\* The length of what a document contributes as its body under the budget m.
bodyLen(doc, m) ==
    IF Len(doc.content) > m THEN m + Len(TruncationMarker) ELSE Len(doc.content)

\* The index in the context of the last character of the k-th document's
\* body (0 for k = 0), and of the first.
RECURSIVE bodyEnd(_, _, _)
bodyEnd(docs, m, k) ==
    IF k = 0 THEN 0
    ELSE bodyEnd(docs, m, k - 1) + Len(headerOf(docs[k].fileName)) + bodyLen(docs[k], m)

bodyStart(docs, m, k) ==
    bodyEnd(docs, m, k - 1) + Len(headerOf(docs[k].fileName)) + 1

\* The context of three documents of 50,000 characters each, computed in the
\* initial state: each is cut to 33,333 characters and the marker.
ThreeLargeDocuments ==
    call.op = "constructor" =>
        LET large == digitText(MaxTotalContext \div 2)
            store == 101 :> [i \in 1..3 |->
                        [fileName |-> fileNameOf(i), content |-> large, chunks |-> <<>>]]
            cut == SubSeq(large, 1, 33333) \o TruncationMarker
        IN  generateAnswer(store, 101).value.context
                = headerOf(fileNameOf(1)) \o cut \o headerOf(fileNameOf(2)) \o cut
                    \o headerOf(fileNameOf(3)) \o cut

\* C19: with n >= 1 documents the context is assembled under the budget
\* maxPerDoc = floor(100000 / n): a document longer than maxPerDoc
\* contributes exactly its first maxPerDoc characters followed by the
\* truncation marker, a document of at most maxPerDoc characters (exactly
\* maxPerDoc included) its whole content and no marker; three documents of
\* 50,000 characters are each cut to 33,333 characters and the marker.
ContextBudget ==
    /\ ThreeLargeDocuments
    /\ (call.op = "generateAnswer" /\ ret.value.calledModel) =>
           \A docs \in {documents[call.chatId]} :
           \A m \in {MaxTotalContext \div Len(docs)} :
               /\ Len(ret.value.context) = bodyEnd(docs, m, Len(docs))
               /\ \A k \in 1..Len(docs) :
                     \A from \in {bodyStart(docs, m, k)} :
                         IF Len(docs[k].content) > m
                         THEN /\ SubSeq(ret.value.context, from, from + m - 1)
                                   = SubSeq(docs[k].content, 1, m)
                              /\ SubSeq(ret.value.context, from + m, bodyEnd(docs, m, k))
                                   = TruncationMarker
                         ELSE SubSeq(ret.value.context, from, bodyEnd(docs, m, k))
                                   = docs[k].content

\* The context of thirty documents has been assembled, the last three of
\* twice the budget of 3333 characters: each of these is cut to 3333
\* characters and the marker, and the documents "abc" are whole.
ContextBudgetWitness ==
    /\ call.op = "generateAnswer"
    /\ ret.value.calledModel
    /\ Len(documents[101]) = MaxContextDocs
    /\ \A k \in (MaxContextDocs - 2)..MaxContextDocs :
          Len(documents[101][k].content) = 2 * (MaxTotalContext \div MaxContextDocs)
    /\ Len(ret.value.context)
          = bodyEnd(documents[101], MaxTotalContext \div MaxContextDocs, MaxContextDocs - 3)
              + 3 * (Len(headerOf(fileNameOf(MaxContextDocs)))
                     + (MaxTotalContext \div MaxContextDocs) + Len(TruncationMarker))

\* C20: the sources generateAnswer returns are the file names of all
\* documents of the user's collection, in collection order, whether or not a
\* document was truncated; and in the context every document's body is
\* preceded by a header that names its file, in the same order.
SourcesListAllDocuments ==
    call.op = "generateAnswer" =>
        /\ ret.value.sources = getDocumentNames(documents, call.chatId)
        /\ ret.value.calledModel =>
              \A docs \in {documents[call.chatId]} :
              \A m \in {MaxTotalContext \div Len(docs)} :
                  \A k \in 1..Len(docs) :
                      SubSeq(ret.value.context,
                             bodyEnd(docs, m, k - 1) + 1,
                             bodyStart(docs, m, k) - 1)
                          = headerOf(docs[k].fileName)

\* The context of thirty documents has been assembled, the last but two of
\* exactly the budget and whole, the last two longer and truncated, and the
\* sources name all thirty.
SourcesListAllDocumentsWitness ==
    /\ call.op = "generateAnswer"
    /\ ret.value.calledModel
    /\ Len(documents[101]) = MaxContextDocs
    /\ Len(documents[101][MaxContextDocs - 2].content) = MaxTotalContext \div MaxContextDocs
    /\ Len(documents[101][MaxContextDocs - 1].content) > MaxTotalContext \div MaxContextDocs
    /\ Len(documents[101][MaxContextDocs].content) > MaxTotalContext \div MaxContextDocs
    /\ ret.value.sources = [i \in 1..MaxContextDocs |-> fileNameOf(i)]

\* The chunks returned by a call stepped through are those of the operator.
StepwiseIsChunkText ==
    frame.pc = "done" => ret.value = chunkText(frame.text, frame.chunkSize, frame.overlap)

\* C12: chunkText never returns an empty sequence: for the empty text it
\* returns the one-element sequence [""], and for every other text, a text
\* of whitespace only included, at least one chunk.
ChunkTextNeverEmpty ==
    frame.pc = "done" =>
        /\ Len(ret.value) >= 1
        /\ (frame.text = <<>> => ret.value = << <<>> >>)

\* chunkText has returned for the empty text, and for a text of whitespace
\* only it has returned that text as the one chunk.
ChunkTextNeverEmptyWitness ==
    /\ frame.pc = "done"
    /\ frame.text = <<" ", "\n">>
    /\ ret.value = << <<" ", "\n">> >>

\* C21: for every number n >= 1 of documents, the context generateAnswer
\* passes to the model is at most maxTotalContext = 100000 characters long.
ContextCapped ==
    (call.op = "generateAnswer" /\ ret.value.calledModel) =>
        Len(ret.value.context) <= MaxTotalContext

\* The index in storeCalls of the last clearDocuments for a chat (0 when
\* there is none), and the indices of the calls of addDocument after it.
lastClear(chatId) ==
    LET clears == {i \in 1..Len(storeCalls) :
                      storeCalls[i].op = "clearDocuments" /\ storeCalls[i].chatId = chatId}
    IN  IF clears = {} THEN 0 ELSE CHOOSE i \in clears : \A j \in clears : j <= i

addsSinceClear(chatId) ==
    {i \in (lastClear(chatId) + 1)..Len(storeCalls) :
        storeCalls[i].op = "addDocument" /\ storeCalls[i].chatId = chatId}

\* The last of these calls for a file name.
lastAddOf(chatId, fileName) ==
    CHOOSE i \in addsSinceClear(chatId) :
        /\ storeCalls[i].fileName = fileName
        /\ \A j \in addsSinceClear(chatId) : storeCalls[j].fileName = fileName => j <= i

\* C22: of the uploads of one user under one file name, whether processed one
\* after the other or at the same time, the store holds exactly one document
\* of that name, with the content of the addDocument that ran last and with
\* the chunks of that content: no document has the content of one upload and
\* the chunks of another.
ConcurrentUploadsLastWins ==
    /\ \A i \in addsSinceClear(101) :
          \A f \in {storeCalls[i].fileName} :
              /\ Cardinality({k \in 1..Len(documents[101]) :
                                 documents[101][k].fileName = f}) = 1
              /\ \E k \in 1..Len(documents[101]) :
                    /\ documents[101][k].fileName = f
                    /\ documents[101][k].content = storeCalls[lastAddOf(101, f)].content
    /\ \A c \in DOMAIN documents :
          \A k \in 1..Len(documents[c]) :
              documents[c][k].chunks
                  = chunkText(documents[c][k].content, DefaultChunkSize, DefaultOverlap)

\* Two uploads under the name f1.pdf were being processed at the same time:
\* the file sent second was stored first, the file sent first after it, and
\* the store holds the one document, with the text of the file sent first.
ConcurrentUploadsLastWinsWitness ==
    /\ Len(handlers) >= 2
    /\ handlers[1].kind = "document" /\ handlers[1].document.file_id = "fileX"
    /\ handlers[2].kind = "document" /\ handlers[2].document.file_id = "fileY"
    /\ handlers[1].document.file_name = handlers[2].document.file_name
    /\ handlers[1].pc = "done" /\ handlers[2].pc = "done"
    /\ Len(storeCalls) = 2
    /\ storeCalls[1].h = 2 /\ storeCalls[2].h = 1
    /\ Len(documents[101]) = 1
    /\ documents[101][1].content = TextX
    /\ documents[101][1].chunks = <<TextX>>

\* C25: an upload whose processing finishes is stored whether or not the
\* chat's collection was cleared while it was processed, and the collection
\* holds exactly the documents whose addDocument ran after the last
\* clearDocuments; so it can hold a document although no file was sent after
\* /clear.
UploadInFlightSurvivesClear ==
    /\ \A h \in 1..Len(handlers) :
          (\E k \in 1..Len(effects[h]) : effects[h][k].text = "PDF Uploaded Successfully")
              => \E i \in 1..Len(storeCalls) :
                    storeCalls[i].h = h /\ storeCalls[i].op = "addDocument"
    /\ Len(getDocuments(documents, 101))
          = Cardinality({storeCalls[i].fileName : i \in addsSinceClear(101)})
    /\ \A k \in 1..Len(getDocuments(documents, 101)) :
          \E i \in addsSinceClear(101) :
              /\ documents[101][k].fileName = storeCalls[i].fileName
              /\ documents[101][k].content
                    = storeCalls[lastAddOf(101, storeCalls[i].fileName)].content

\* A file was stored, a second was sent, then /clear: the handler of /clear
\* cleared the collection while the second file was processed, both handlers
\* have completed, and the collection holds the second file.
UploadInFlightSurvivesClearWitness ==
    /\ Len(handlers) = 3
    /\ handlers[2].kind = "document" /\ handlers[3].kind = "clear"
    /\ handlers[2].pc = "done" /\ handlers[3].pc = "done"
    /\ handlers[3].docCount = 1
    /\ Len(storeCalls) = 3
    /\ storeCalls[2].op = "clearDocuments" /\ storeCalls[3].h = 2
    /\ Len(documents[101]) = 1
    /\ documents[101][1].fileName = handlers[2].document.file_name

\* The upload of handler h, of the handlers hs with the effects es, is
\* refused for its name, refused for its size, or its processPDF has thrown.
uploadFailed(hs, es, h) ==
    /\ hs[h].kind = "document"
    /\ \/ ~endsWith(toLowerCase(hs[h].document.file_name), DotPdf)
       \/ hs[h].document.file_size > MaxUploadBytes
       \/ /\ Len(es[h]) >= 2
          /\ es[h][1].text = "Processing"
          /\ es[h][2].text = "Failed to process"

\* C26: the handler of an upload whose file name does not end in .pdf
\* (in either case of letters), whose file is larger than 20 MB, or whose
\* processPDF throws, never calls addDocument, and no step of it changes the
\* store: the store changes only in the steps that call addDocument or
\* clearDocuments.
FailedUploadLeavesStore ==
    [][/\ documents' # documents =>
              /\ Len(storeCalls') = Len(storeCalls) + 1
              /\ ~uploadFailed(handlers', effects', storeCalls'[Len(storeCalls')].h)
       /\ \A h \in 1..Len(handlers') :
              uploadFailed(handlers', effects', h) => \A i \in 1..Len(storeCalls') : storeCalls'[i].h # h]_vars

\* After f1.pdf was stored, an upload of f1.pdf whose processPDF threw and an
\* upload of f1.pdf of more than 20 MB have completed, and the collection
\* holds the text stored first.
FailedUploadLeavesStoreWitness ==
    /\ Len(handlers) = 3
    /\ \A h \in 1..3 : handlers[h].kind = "document" /\ handlers[h].pc = "done"
    /\ handlers[1].document.file_id = "fileX" /\ handlers[1].document.file_size = MaxUploadBytes
    /\ handlers[2].document.file_id = "fileY" /\ handlers[2].document.file_name = fileNameOf(1)
    /\ effects[2][Len(effects[2])].text = "Failed to process"
    /\ handlers[3].document.file_size > MaxUploadBytes
    /\ Len(storeCalls) = 1
    /\ Len(documents[101]) = 1
    /\ documents[101][1].content = TextX

\* The calls of axios.post among the calls of handler h in es.
postsOf(es, h) == SelectSeq(es[h], LAMBDA e : e.api = "axios.post")

\* C23: generateAnswer called for a user whose collection is empty at that
\* moment, also when it was emptied after the question handler read a count
\* of one or more, returns no sources and the answer for a user without
\* documents, and posts no request to the model, then or later.
EmptyCollectionShortCircuits ==
    [][/\ \A h \in 1..Len(handlers) :
             (/\ handlers[h].kind = "text"
              /\ handlers[h].pc = "processingMsg"
              /\ handlers'[h].asked
              /\ getDocumentCount(documents, handlers[h].chatId) = 0)
                 => /\ ~ret'.value.calledModel
                    /\ ret'.value.sources = <<>>
                    /\ handlers'[h].result = [kind |-> "answer",
                                              answer |-> NoDocumentsAnswer,
                                              sources |-> <<>>]
                    /\ effects'[h] = Append(effects[h],
                          [api |-> "editMessageText", message |-> "processingMsg",
                           text |-> NoDocumentsAnswer])
       /\ \A h \in 1..Len(handlers') :
             (handlers'[h].kind = "text" /\ handlers'[h].asked /\ handlers'[h].allDocs = <<>>)
                 => postsOf(effects', h) = <<>>]_vars

\* The question handler read a count of one or more, the collection was
\* emptied before it called generateAnswer, and the handler has completed
\* with the answer for a user without documents and without a request.
EmptyCollectionShortCircuitsWitness ==
    /\ Len(handlers) = 1
    /\ handlers[1].kind = "text"
    /\ handlers[1].docCount >= 1
    /\ handlers[1].asked
    /\ handlers[1].allDocs = <<>>
    /\ handlers[1].pc = "done"
    /\ handlers[1].result.kind = "answer"
    /\ handlers[1].result.sources = <<>>
    /\ Len(effects[1]) = 3
    /\ effects[1][3].text = NoDocumentsAnswer

\* The context generateAnswer assembles of the documents allDocs.
contextOf(allDocs) ==
    IF Len(allDocs) = 0 THEN <<>>
    ELSE buildContext(allDocs, MaxTotalContext \div Len(allDocs), 1)

\* C24: the documents generateAnswer reads are those of the collection at
\* the moment it is called; every request to the model, the retries
\* included, carries the context of these documents, and the sources
\* returned and shown are their names, whatever addDocument, deleteDocument
\* or clearDocuments does to the collection meanwhile.
AnswerFromSnapshot ==
    [][\A h \in 1..Len(handlers') :
          (handlers'[h].kind = "text" /\ handlers'[h].asked) =>
              /\ handlers'[h].allDocs =
                    IF h <= Len(handlers) /\ handlers[h].asked
                    THEN handlers[h].allDocs
                    ELSE getAllContent(documents, handlers'[h].chatId)
              /\ \A k \in 1..Len(postsOf(effects', h)) :
                    postsOf(effects', h)[k].context = contextOf(handlers'[h].allDocs)
              /\ handlers'[h].result.kind = "answer" =>
                    /\ handlers'[h].result.sources
                          = [i \in 1..Len(handlers'[h].allDocs) |->
                                handlers'[h].allDocs[i].fileName]
                    /\ handlers'[h].response = responseOf(handlers'[h].result)]_vars

\* A question was answered after a retry, the collection is no longer what
\* generateAnswer read, and both requests carried the same context.
AnswerFromSnapshotWitness ==
    /\ Len(handlers) = 1
    /\ handlers[1].kind = "text"
    /\ handlers[1].pc = "done"
    /\ handlers[1].result.kind = "answer"
    /\ Len(handlers[1].allDocs) = 2
    /\ getAllContent(documents, 101) # handlers[1].allDocs
    /\ Len(postsOf(effects, 1)) = 2
    /\ postsOf(effects, 1)[1].context = postsOf(effects, 1)[2].context
    /\ handlers[1].result.sources = <<fileNameOf(1), fileNameOf(2)>>

\* The delays of the calls of sleep among the calls of handler h.
sleepsOf(h) ==
    LET sleeps == SelectSeq(effects[h], LAMBDA e : e.api = "sleep")
    IN  [k \in 1..Len(sleeps) |-> sleeps[k].ms]

\* The status is one callGemini retries on.
retried(outcome) == outcome.kind = "error" /\ outcome.status \in {429, 503}

\* C27: callGemini makes at most 4 requests; a request is followed by
\* another only when it failed with status 429 or 503, after sleeps of 3 s,
\* 6 s and 12 s; when the 4th fails with 429 or 503 a warning text is
\* returned; another error with an API error message returns the 'API Error'
\* text with that message; every other error is rethrown, without a retry.
CallGeminiRetries ==
    \A h \in 1..Len(handlers) :
        (handlers[h].kind = "text" /\ handlers[h].asked /\ handlers[h].allDocs # <<>>) =>
            LET outcomes == handlers[h].outcomes
                posts == Len(postsOf(effects, h))
                result == handlers[h].result
            IN  /\ posts >= 1 /\ posts <= 4
                /\ Len(sleepsOf(h)) <= 3
                /\ sleepsOf(h) = SubSeq(<<3000, 6000, 12000>>, 1, Len(sleepsOf(h)))
                /\ Len(sleepsOf(h)) = IF handlers[h].pc = "sleep" THEN posts ELSE posts - 1
                /\ \A k \in 1..Len(sleepsOf(h)) : retried(outcomes[k])
                /\ Len(outcomes) = IF handlers[h].pc = "post" THEN posts - 1 ELSE posts
                /\ handlers[h].pc \notin {"post", "sleep"} =>
                      \A last \in {outcomes[posts]} :
                          IF retried(last)
                          THEN /\ posts = 4
                               /\ result.kind = "answer"
                               /\ result.answer = IF last.status = 429
                                                  THEN RateLimitAnswer ELSE OverloadedAnswer
                          ELSE IF last.kind = "error" /\ last.message # <<>>
                          THEN /\ result.kind = "answer"
                               /\ result.answer = ApiErrorPrefix \o last.message
                          ELSE IF last.kind = "error"
                          THEN result.kind = "throw"
                          ELSE result.kind = "answer"

\* Four requests were made, after sleeps of 3 s, 6 s and 12 s, the fourth
\* failed with status 503, and the handler has shown the warning text.
CallGeminiRetriesWitness ==
    /\ Len(handlers) = 1
    /\ handlers[1].kind = "text"
    /\ handlers[1].pc = "done"
    /\ Len(handlers[1].outcomes) = 4
    /\ Len(postsOf(effects, 1)) = 4
    /\ sleepsOf(1) = <<3000, 6000, 12000>>
    /\ \A k \in 1..4 : retried(handlers[1].outcomes[k])
    /\ handlers[1].outcomes[4].status = 503
    /\ handlers[1].result.kind = "answer"
    /\ handlers[1].result.answer = OverloadedAnswer
    /\ effects[1][Len(effects[1])].api = "editMessageText"
    /\ effects[1][Len(effects[1])].text = responseOf(handlers[1].result)

\* The calls of the Telegram API among the calls of handler h.
telegramOf(h) == SelectSeq(effects[h], LAMBDA e : e.api \notin {"axios.post", "sleep"})

\* The texts of the messages es[from], ..., es[Len(es)], one after the other.
RECURSIVE textsFrom(_, _)
textsFrom(es, from) ==
    IF from > Len(es) THEN <<>> ELSE es[from].text \o textsFrom(es, from + 1)

\* The question handler h has its result and has completed without a
\* rejected call.
answered(h) ==
    /\ handlers[h].kind = "text"
    /\ handlers[h].pc = "done"
    /\ handlers[h].result.kind = "answer"
    /\ \A k \in 1..Len(effects[h]) :
          effects[h][k].api = "editMessageText" => effects[h][k].text # QuestionErrorText

downloadCallsOf(h) ==
    LET parsed == SelectSeq(Indices(effects[h]), LAMBDA i : effects[h][i].api = "pdfParse")
    IN  IF parsed = <<>> THEN effects[h] ELSE SubSeq(effects[h], 1, parsed[1] - 1)

\* The attempts of downloadTelegramFile: its getFile requests.
attemptsOf(h) ==
    Len(SelectSeq(downloadCallsOf(h),
                  LAMBDA e : e.api = "axios.get" /\ e.url = "getFile"))

\* The delays of the sleeps of downloadTelegramFile.
downloadSleepsOf(h) ==
    LET sleeps == SelectSeq(downloadCallsOf(h), LAMBDA e : e.api = "sleep")
    IN  [k \in 1..Len(sleeps) |-> sleeps[k].ms]

\* The error is one the claim says is retried.
retryable(error) ==
    \/ error.code \in {"ECONNRESET", "ETIMEDOUT"}
    \/ includes(error.message, <<"a", "b", "o", "r", "t", "e", "d">>)

\* C28: downloadTelegramFile makes at most 4 attempts; an attempt is
\* followed by another only when its error has code ECONNRESET or ETIMEDOUT
\* or a message containing 'aborted', after sleeps of 2 s, 4 s and 6 s; any
\* other error, the 'Could not get file info from Telegram' error among
\* them, and the error of the 4th attempt are rethrown to the caller.
DownloadRetries ==
    \A h \in 1..Len(handlers) :
        handlers[h].kind = "processPDF" =>
            LET errors == handlers[h].errors
                attempts == attemptsOf(h)
                sleeps == downloadSleepsOf(h)
            IN  /\ attempts >= 1 /\ attempts <= 4
                /\ Len(sleeps) <= 3
                /\ sleeps = SubSeq(<<2000, 4000, 6000>>, 1, Len(sleeps))
                /\ Len(sleeps) = IF handlers[h].pc = "downloadSleep"
                                 THEN attempts ELSE attempts - 1
                /\ \A k \in 1..Len(sleeps) : retryable(errors[k])
                /\ (Len(errors) = attempts /\ handlers[h].pc # "downloadSleep") =>
                      /\ attempts = 4 \/ ~retryable(errors[attempts])
                      /\ handlers[h].pc = "rejected"
                      /\ handlers[h].result = [kind |-> "throw",
                                               error |-> errors[attempts]]
                      /\ downloadCallsOf(h) = effects[h]
                /\ \A k \in 1..Len(errors) :
                      errors[k] = NoFileInfoError =>
                          k = attempts /\ handlers[h].pc = "rejected"

\* Four attempts failed with errors that are retried, one of them by its
\* message, after sleeps of 2 s, 4 s and 6 s, and the error of the fourth
\* was rethrown.
DownloadRetriesWitness ==
    /\ Len(handlers) = 1
    /\ handlers[1].kind = "processPDF"
    /\ handlers[1].pc = "rejected"
    /\ attemptsOf(1) = 4
    /\ Len(handlers[1].errors) = 4
    /\ \A k \in 1..4 : retryable(handlers[1].errors[k])
    /\ handlers[1].errors[2].code = "ECONNABORTED"
    /\ downloadSleepsOf(1) = <<2000, 4000, 6000>>
    /\ handlers[1].result = [kind |-> "throw", error |-> handlers[1].errors[4]]

\* C29: within one call of extractTextFromPDF extractWithGemini is started
\* at most once, so that at most 3 extraction requests are posted for an
\* uploaded PDF, whatever pdf-parse does.
ExtractFallbackOnce ==
    \A h \in 1..Len(handlers) :
        handlers[h].kind = "processPDF" =>
            /\ handlers[h].fallbacks <= 1
            /\ Len(postsOf(effects, h)) <= 3

====
